---- MODULE Spec2Model ----
(***************************************************************************)
(* freebsd-rustdate: the installer (cmd/install.rs, core/install), the     *)
(* conflict-resolution driver (cmd/resolve_merges.rs), the worker pool     *)
(* (core/pool.rs) and the stash step of the fetch pipeline                 *)
(* (core/pool/stash.rs, cmd/fetch.rs), as state machines.                  *)
(*                                                                         *)
(* Three specifications share the module's variables:                      *)
(*   Spec       install / resolve-merges runs over a pending manifest      *)
(*   SpecPool   one Pool::run (SpecPoolFair adds thread fairness)          *)
(*   SpecStash  one fetch run from the stash step to the manifest save,    *)
(*              with the live tree changing underneath it                  *)
(***************************************************************************)
EXTENDS Integers, Sequences, FiniteSets, TLC

VARIABLES
    tree,       \* the target tree under basedir: path -> node
    filesdir,   \* <workdir>/files: hash -> the gzip object <hash>.gz
    state,      \* the persisted state file: [manifest |-> ...]
    last,       \* record of the last command run (history variable)
    applied,    \* paths installed so far under the pending manifest (history)
    pool,       \* one Pool::run: channels, workers, dispatcher
    stash       \* one fetch run: scan result, stash workers, tmpdir

vars == <<tree, filesdir, state, last, applied, pool, stash>>

(***************************************************************************)
(* Paths.  A path is a string; Chars gives its bytes, from which the       *)
(* components, the ordering of std::path::Path and the two regular         *)
(* expressions of core/install/install.rs are computed.                    *)
(***************************************************************************)
FsPaths ==
    { "/", "/bin", "/bin/rsh",
      "/bin/sh", "/boot", "/boot/kernel",
      "/boot/kernel/kernel", "/boot/kernel/link", "/boot/kernel/old.ko",
      "/boot/kernel.old", "/boot/kernel.old/.freebsd-update", "/boot/kernel.old/kernel",
      "/boot/kernel.old/link", "/boot/kernel.old/old.ko",
      "/boot/kernel.old1", "/boot/kernel.old1/.freebsd-update", "/boot/kernel.old1/kernel",
      "/boot/kernel.old1/link", "/boot/kernel.old1/old.ko", "/etc",
      "/etc/hosts", "/etc/rc.conf", "/lib",
      "/lib/libc.so.6", "/lib/libc.so.7", "/libexec",
      "/libexec/ld-elf.so.1", "/libexec/ld-elf32.so.1", "/opt",
      "/opt/f", "/usr", "/usr/lib",
      "/usr/lib/compat", "/usr/lib/compat/libx.so.1" }
Chars(p) ==
    CASE p = "/" -> <<"/">>
      [] p = "/bin" -> <<"/","b","i","n">>
      [] p = "/bin/rsh" -> <<"/","b","i","n","/","r","s","h">>
      [] p = "/bin/sh" -> <<"/","b","i","n","/","s","h">>
      [] p = "/boot" -> <<"/","b","o","o","t">>
      [] p = "/boot/kernel" -> <<"/","b","o","o","t","/","k","e","r","n","e","l">>
      [] p = "/boot/kernel/kernel" -> <<"/","b","o","o","t","/","k","e","r","n","e","l","/","k","e","r","n","e","l">>
      [] p = "/boot/kernel/link" -> <<"/","b","o","o","t","/","k","e","r","n","e","l","/","l","i","n","k">>
      [] p = "/boot/kernel/old.ko" -> <<"/","b","o","o","t","/","k","e","r","n","e","l","/","o","l","d",".","k","o">>
      [] p = "/boot/kernel.old" -> <<"/","b","o","o","t","/","k","e","r","n","e","l",".","o","l","d">>
      [] p = "/boot/kernel.old/.freebsd-update" -> <<"/","b","o","o","t","/","k","e","r","n","e","l",".","o","l","d","/",".","f","r","e","e","b","s","d","-","u","p","d","a","t","e">>
      [] p = "/boot/kernel.old/kernel" -> <<"/","b","o","o","t","/","k","e","r","n","e","l",".","o","l","d","/","k","e","r","n","e","l">>
      [] p = "/boot/kernel.old/link" -> <<"/","b","o","o","t","/","k","e","r","n","e","l",".","o","l","d","/","l","i","n","k">>
      [] p = "/boot/kernel.old/old.ko" -> <<"/","b","o","o","t","/","k","e","r","n","e","l",".","o","l","d","/","o","l","d",".","k","o">>
      [] p = "/boot/kernel.old1" -> <<"/","b","o","o","t","/","k","e","r","n","e","l",".","o","l","d","1">>
      [] p = "/boot/kernel.old1/.freebsd-update" -> <<"/","b","o","o","t","/","k","e","r","n","e","l",".","o","l","d","1","/",".","f","r","e","e","b","s","d","-","u","p","d","a","t","e">>
      [] p = "/boot/kernel.old1/kernel" -> <<"/","b","o","o","t","/","k","e","r","n","e","l",".","o","l","d","1","/","k","e","r","n","e","l">>
      [] p = "/boot/kernel.old1/link" -> <<"/","b","o","o","t","/","k","e","r","n","e","l",".","o","l","d","1","/","l","i","n","k">>
      [] p = "/boot/kernel.old1/old.ko" -> <<"/","b","o","o","t","/","k","e","r","n","e","l",".","o","l","d","1","/","o","l","d",".","k","o">>
      [] p = "/etc" -> <<"/","e","t","c">>
      [] p = "/etc/hosts" -> <<"/","e","t","c","/","h","o","s","t","s">>
      [] p = "/etc/rc.conf" -> <<"/","e","t","c","/","r","c",".","c","o","n","f">>
      [] p = "/lib" -> <<"/","l","i","b">>
      [] p = "/lib/libc.so.6" -> <<"/","l","i","b","/","l","i","b","c",".","s","o",".","6">>
      [] p = "/lib/libc.so.7" -> <<"/","l","i","b","/","l","i","b","c",".","s","o",".","7">>
      [] p = "/libexec" -> <<"/","l","i","b","e","x","e","c">>
      [] p = "/libexec/ld-elf.so.1" -> <<"/","l","i","b","e","x","e","c","/","l","d","-","e","l","f",".","s","o",".","1">>
      [] p = "/libexec/ld-elf32.so.1" -> <<"/","l","i","b","e","x","e","c","/","l","d","-","e","l","f","3","2",".","s","o",".","1">>
      [] p = "/opt" -> <<"/","o","p","t">>
      [] p = "/opt/f" -> <<"/","o","p","t","/","f">>
      [] p = "/usr" -> <<"/","u","s","r">>
      [] p = "/usr/lib" -> <<"/","u","s","r","/","l","i","b">>
      [] p = "/usr/lib/compat" -> <<"/","u","s","r","/","l","i","b","/","c","o","m","p","a","t">>
      [] p = "/usr/lib/compat/libx.so.1" -> <<"/","u","s","r","/","l","i","b","/","c","o","m","p","a","t","/","l","i","b","x",".","s","o",".","1">>

\* The bytes that occur in FsPaths, in ASCII order.
AsciiOrder ==
    << "-", ".", "/", "0", "1", "2", "3", "4", "5", "6", "7", "8", "9",
       "a", "b", "c", "d", "e", "f", "g", "h", "i", "j", "k", "l", "m",
       "n", "o", "p", "q", "r", "s", "t", "u", "v", "w", "x", "y", "z" >>

Ord(c) == CHOOSE i \in 1..Len(AsciiOrder) : AsciiOrder[i] = c

Digits == {"0", "1", "2", "3", "4", "5", "6", "7", "8", "9"}

ByteLess(a, b) == Ord(a) < Ord(b)

\* Order of two names (OsStr): bytewise lexicographic.
RECURSIVE NameLess(_, _)
NameLess(s, t) ==
    IF t = <<>> THEN FALSE
    ELSE IF s = <<>> THEN TRUE
    ELSE IF ByteLess(Head(s), Head(t)) THEN TRUE
    ELSE IF ByteLess(Head(t), Head(s)) THEN FALSE
    ELSE NameLess(Tail(s), Tail(t))

\* Order of two component lists: lexicographic over the names.
RECURSIVE CompsLess(_, _)
CompsLess(s, t) ==
    IF t = <<>> THEN FALSE
    ELSE IF s = <<>> THEN TRUE
    ELSE IF NameLess(Head(s), Head(t)) THEN TRUE
    ELSE IF NameLess(Head(t), Head(s)) THEN FALSE
    ELSE CompsLess(Tail(s), Tail(t))

\* Path::components() of an absolute path: the names between the slashes.
RECURSIVE Components(_)
Components(s) ==
    IF s = <<>> THEN <<>>
    ELSE IF Head(s) = "/" THEN Components(Tail(s))
    ELSE LET stops == {i \in 1..Len(s) : s[i] = "/"}
             n == IF stops = {} THEN Len(s) + 1
                  ELSE CHOOSE i \in stops : \A j \in stops : i <= j
         IN  <<SubSeq(s, 1, n - 1)>> \o Components(SubSeq(s, n, Len(s)))

Comp == [p \in FsPaths |-> Components(Chars(p))]

\* Path's Ord compares component by component.
PathLess(p, q) == CompsLess(Comp[p], Comp[q])

\* Path::starts_with: whole components only.
starts_with(p, base) ==
    /\ Len(Comp[base]) <= Len(Comp[p])
    /\ SubSeq(Comp[p], 1, Len(Comp[base])) = Comp[base]

IsBelow(q, p) == q # p /\ starts_with(q, p)

\* Path::parent of a path other than the root.
Parent(p) ==
    CHOOSE d \in FsPaths : Comp[d] = SubSeq(Comp[p], 1, Len(Comp[p]) - 1)

\* dir.join(name)
Join(d, name) == CHOOSE p \in FsPaths : Comp[p] = Append(Comp[d], name)

is_kernel_dir(p) == starts_with(p, "/boot")

SortedFsPaths ==
    [i \in 1..Cardinality(FsPaths) |->
        CHOOSE p \in FsPaths : Cardinality({q \in FsPaths : PathLess(q, p)}) = i - 1]

\* itertools sorted() / sorted_unstable() over a set of paths.
sorted(S) == SelectSeq(SortedFsPaths, LAMBDA p : p \in S)

\* Iterator::rev()
rev(s) == [i \in 1..Len(s) |-> s[Len(s) + 1 - i]]

\* The bytes of pat occur in s at position i.
MatchAt(s, i, pat) ==
    /\ i >= 1
    /\ i + Len(pat) - 1 <= Len(s)
    /\ SubSeq(s, i, i + Len(pat) - 1) = pat

\* From position `from` on, s matches  .*\.so\.[0-9]+$
SoSuffixFrom(s, from) ==
    \E j \in from..Len(s) :
        /\ MatchAt(s, j, <<".", "s", "o", ".">>)
        /\ j + 4 <= Len(s)
        /\ \A k \in (j + 4)..Len(s) : s[k] \in Digits

\* ^/libexec/ld-elf.*\.so\.[0-9]+$
re_linker_file(p) ==
    LET s   == Chars(p)
        pre == <<"/", "l", "i", "b", "e", "x", "e", "c", "/", "l", "d", "-", "e", "l", "f">>
    IN  MatchAt(s, 1, pre) /\ SoSuffixFrom(s, Len(pre) + 1)

\* .*/lib/.*\.so\.[0-9]+$   (is_match searches, so the match may start anywhere)
re_so_file(p) ==
    LET s   == Chars(p)
        mid == <<"/", "l", "i", "b", "/">>
    IN  \E i \in 1..Len(s) : MatchAt(s, i, mid) /\ SoSuffixFrom(s, i + Len(mid))

(***************************************************************************)
(* The target tree.  A node is absent, a directory, a regular file (its    *)
(* bytes and its inode) or a symlink (its target string).  Symlink targets *)
(* of the modelled inputs are relative names outside the tree, so no path  *)
(* is reached through a symlinked ancestor.                                *)
(***************************************************************************)
NoNode == [k |-> "none", c |-> "", ino |-> 0]

DirNode == [k |-> "dir", c |-> "", ino |-> 0]

SymNode(target) == [k |-> "sym", c |-> target, ino |-> 0]

FileNode(bytes, ino) == [k |-> "file", c |-> bytes, ino |-> ino]

\* An inode number no node of the tree holds.
FreshIno(t) ==
    LET used == {t[p].ino : p \in FsPaths}
    IN  1 + (CHOOSE m \in used : \A n \in used : n <= m)

\* SHA-256, collision-free over the modelled contents.
Sha256(bytes) == "sha256:" \o bytes

\* util/compress.rs compress_gz / decompress: a gzip member around the bytes.
compress_gz(bytes) == [gz |-> bytes]

decompress(z) == z.gz

\* bits.rs exists(): symlink_metadata succeeds (a dangling symlink exists).
exists(t, p) == t[p].k # "none"

\* bits.rs is_dir(): fs::metadata, which follows a symlink.
is_dir(t, p) ==
    \/ t[p].k = "dir"
    \/ /\ t[p].k = "sym"
       /\ t[p].c \in FsPaths
       /\ t[t[p].c].k = "dir"

Ok(t) == [t |-> t, ok |-> TRUE]

Err(t) == [t |-> t, ok |-> FALSE]

\* fs::remove_file
remove_file(t, p) == [t EXCEPT ![p] = NoNode]

\* fs::remove_dir_all: the directory and everything below it; a symlink
\* is removed itself, not followed.
remove_dir_all(t, d) ==
    IF t[d].k = "dir"
    THEN [p \in FsPaths |-> IF starts_with(p, d) THEN NoNode ELSE t[p]]
    ELSE remove_file(t, d)

\* DirBuilder::recursive(true).create: the missing ancestors, then the path.
create_dir_all(t, p) ==
    LET anc == {q \in FsPaths : starts_with(p, q)}
    IN  IF \E q \in anc : exists(t, q) /\ ~is_dir(t, q)
        THEN Err(t)
        ELSE Ok([q \in FsPaths |->
                    IF q \in anc /\ ~exists(t, q) THEN DirNode ELSE t[q]])

\* bits.rs rm_dir(): a directory in the way of a file or link is removed
\* with all its contents.
rm_dir(t, d) ==
    IF ~exists(t, d) \/ ~is_dir(t, d) THEN t ELSE remove_dir_all(t, d)

\* bits.rs dir()
dir(t, dst) ==
    LET t1 == IF exists(t, dst) /\ ~is_dir(t, dst) THEN remove_file(t, dst) ELSE t
    IN  IF ~exists(t1, dst) THEN create_dir_all(t1, dst) ELSE Ok(t1)

\* bits.rs file(): the hashfile must exist; a directory at dst is removed;
\* the bytes are decompressed into a temporary file in dst's directory,
\* which is then renamed over dst.
file(t, fd, dst, sha256) ==
    IF sha256 \notin DOMAIN fd THEN Err(t)
    ELSE LET t1 == rm_dir(t, dst)
         IN  IF ~is_dir(t1, Parent(dst)) THEN Err(t1)
             ELSE Ok([t1 EXCEPT ![dst] = FileNode(decompress(fd[sha256]), FreshIno(t1))])

\* bits.rs link(): the target must exist; dst is left alone when it already
\* is the target's inode, and replaced otherwise.
link(t, dst, target) ==
    IF ~exists(t, target) THEN Err(t)
    ELSE LET t1 == rm_dir(t, dst)
             same == t1[dst].k = "file" /\ t1[target].k = "file"
                     /\ t1[dst].ino = t1[target].ino
             t2 == IF exists(t1, dst) THEN remove_file(t1, dst) ELSE t1
         IN  IF exists(t1, dst) /\ same THEN Ok(t1)
             ELSE IF t2[target].k # "file" \/ ~is_dir(t2, Parent(dst)) THEN Err(t2)
             ELSE Ok([t2 EXCEPT ![dst] = t2[target]])

\* bits.rs symlink()
symlink(t, dst, target) ==
    LET t1 == rm_dir(t, dst)
        t2 == IF exists(t1, dst) THEN remove_file(t1, dst) ELSE t1
    IN  IF exists(t1, dst) /\ t1[dst].k = "sym" /\ t1[dst].c = target THEN Ok(t1)
        ELSE IF ~is_dir(t2, Parent(dst)) THEN Err(t2)
        ELSE Ok([t2 EXCEPT ![dst] = SymNode(target)])

\* bits.rs rm(): a directory that cannot be removed (not empty, or a
\* symlink to a directory) is left and reported; it is not an error.
rm(t, f) ==
    IF ~exists(t, f) THEN Ok(t)
    ELSE IF is_dir(t, f)
    THEN IF t[f].k = "dir" /\ \A q \in FsPaths : IsBelow(q, f) => ~exists(t, q)
         THEN Ok(remove_file(t, f))
         ELSE Ok(t)
    ELSE Ok(remove_file(t, f))

(***************************************************************************)
(* Kernel backup (core/install/kernel.rs), for a basedir whose kernel      *)
(* directory is /boot/kernel.                                              *)
(***************************************************************************)
KernelSrcDir == "/boot/kernel"

\* The candidate backup directories, in the order backup_dir() tries them.
\* kernel.old2 to kernel.old9 are outside FsPaths: the modelled trees always
\* leave one of the first two free or flagged.
BackupSlots == <<"/boot/kernel.old", "/boot/kernel.old1">>

fufile(kd) == Join(kd, <<".", "f", "r", "e", "e", "b", "s", "d", "-", "u", "p", "d", "a", "t", "e">>)

\* backup_dir(): the test of one candidate.
slot_usable(t, kd) == ~exists(t, kd) \/ (is_dir(t, kd) /\ t[fufile(kd)].k = "file")

\* A faulty search that takes kernel.old whatever it holds.
backup_dir_first(t) == BackupSlots[1]

\* kernel.rs backup_dir(): the first of kernel.old, kernel.old1..9 that is
\* free or carries the sentinel file.
backup_dir(t) ==
    IF \E i \in DOMAIN BackupSlots : slot_usable(t, BackupSlots[i])
    THEN BackupSlots[CHOOSE i \in DOMAIN BackupSlots :
                        /\ slot_usable(t, BackupSlots[i])
                        /\ \A j \in 1..(i - 1) : ~slot_usable(t, BackupSlots[j])]
    ELSE "none"

\* kernel.rs do_backup(): recreate dst with the sentinel file and hard-link
\* every non-directory entry of src into it.
do_backup(t, src, dst) ==
    IF exists(t, dst) /\ ~is_dir(t, dst) THEN Err(t)
    ELSE LET t1 == IF exists(t, dst) THEN remove_dir_all(t, dst) ELSE t
             fu == Join(dst, <<".", "f", "r", "e", "e", "b", "s", "d", "-", "u", "p", "d", "a", "t", "e">>)
             ents == {f \in FsPaths : Parent(f) = src /\ f # "/"
                                      /\ exists(t1, f) /\ t1[f].k # "dir"}
             name(f) == Comp[f][Len(Comp[f])]
         IN  IF ~is_dir(t1, Parent(dst)) THEN Err(t1)
             ELSE Ok([p \in FsPaths |->
                        IF p = dst THEN DirNode
                        ELSE IF p = fu THEN FileNode("", FreshIno(t1))
                        ELSE IF \E f \in ents : p = Join(dst, name(f))
                        THEN t1[CHOOSE f \in ents : p = Join(dst, name(f))]
                        ELSE t1[p]])

\* kernel.rs backup_kernel()
backup_kernel(t) ==
    LET skern == Join(KernelSrcDir, <<"k", "e", "r", "n", "e", "l">>)
        bakdir == backup_dir(t)
    IN  IF ~exists(t, skern) THEN Ok(t)
        ELSE IF bakdir = "none" THEN Err(t)
        ELSE do_backup(t, KernelSrcDir, bakdir)

(***************************************************************************)
(* Metadata (metadata/metadata.rs) and the pending manifest (state.rs).    *)
(* A Metadata holds one map per variant; a File entry is its content hash, *)
(* a link entry its target.  Owner, mode and flags are left out.           *)
(***************************************************************************)
EmptyMap == [p \in {} |-> ""]

MkMetadata(f, d, s, h, x) ==
    [files |-> f, dirs |-> d, symlinks |-> s, hardlinks |-> h, dashes |-> x]

\* Metadata::empty
empty(md) ==
    /\ DOMAIN md.dirs = {} /\ DOMAIN md.files = {} /\ DOMAIN md.symlinks = {}
    /\ DOMAIN md.hardlinks = {} /\ md.dashes = {}

\* Metadata::allpaths_hashset_nodash
allpaths_hashset_nodash(md) ==
    DOMAIN md.dirs \cup DOMAIN md.files \cup DOMAIN md.symlinks
        \cup DOMAIN md.hardlinks

Line(t, v) == [t |-> t, v |-> v]

\* Metadata::get_path: files, then dirs, symlinks, hardlinks, dashes.
get_path(md, p) ==
    IF p \in DOMAIN md.files THEN Line("File", md.files[p])
    ELSE IF p \in DOMAIN md.dirs THEN Line("Dir", "")
    ELSE IF p \in DOMAIN md.symlinks THEN Line("SymLink", md.symlinks[p])
    ELSE IF p \in DOMAIN md.hardlinks THEN Line("HardLink", md.hardlinks[p])
    ELSE IF p \in md.dashes THEN Line("Dash", "")
    ELSE Line("None", "")

\* Metadata::get_from_paths: the entries of the paths that have one.
get_from_paths(md, paths) ==
    [p \in {q \in paths : get_path(md, q).t # "None"} |-> get_path(md, p)]

NoManifest == [mtype |-> "none"]

\* Manifest::new_fetch / Manifest::new_upgrade, as one record shape.
MkManifest(mtype, cur, new, clean, conflict) ==
    [mtype |-> mtype, kernel |-> FALSE, world |-> FALSE, cur |-> cur,
     new |-> new, merge_clean |-> clean, merge_conflict |-> conflict]

\* Manifest::change_summary
change_summary(m) ==
    LET curpaths == allpaths_hashset_nodash(m.cur)
        newpaths == allpaths_hashset_nodash(m.new)
    IN  [added |-> newpaths \ curpaths, removed |-> curpaths \ newpaths,
         updated |-> curpaths \cap newpaths]

\* A faulty lookup that forgets the merges and hands out new's entries.
new_get_from_paths(mu, paths) == get_from_paths(mu.new, paths)

\* ManiUpgrade::get_from_paths: new's entries, with the hash of a cleanly
\* merged file replaced by the merge result.
mu_get_from_paths(mu, paths) ==
    LET ret == get_from_paths(mu.new, paths)
    IN  [p \in DOMAIN ret |->
            IF p \in DOMAIN mu.merge_clean /\ ret[p].t = "File"
            THEN Line("File", mu.merge_clean[p].res)
            ELSE ret[p]]

\* The hashes cmd/install.rs requires up front: cur's and new's files.
exp_hashes(m) ==
    {m.cur.files[p] : p \in DOMAIN m.cur.files}
        \cup {m.new.files[p] : p \in DOMAIN m.new.files}

\* Every hash a manifest refers to, merge records included.
MergeHashes(mm) ==
    UNION {{mm[p].old, mm[p].new, mm[p].cur, mm[p].res} : p \in DOMAIN mm}

ManifestHashes(m) ==
    IF m.mtype = "none" THEN {}
    ELSE exp_hashes(m) \cup MergeHashes(m.merge_clean)
            \cup MergeHashes(m.merge_conflict)

(***************************************************************************)
(* The installer.  A run threads an execution record through its steps:    *)
(* the tree so far, the operations performed (each tagged with its phase   *)
(* and with the paths it made disappear), the phases entered, and whether  *)
(* every operation so far succeeded; the first failure ends the run, as    *)
(* the `?` after every call does.  io is the number of the operation at    *)
(* which the system returns an I/O error, before the operation has changed *)
(* anything; 0 when it never does.                                         *)
(***************************************************************************)
Start(t, io) == [t |-> t, ops |-> <<>>, phases |-> <<>>, ok |-> TRUE, io |-> io]

Enter(x, ph) == [x EXCEPT !.phases = Append(@, ph)]

Performed(x, ph, op, path, r) ==
    IF x.io = Len(x.ops) + 1
    THEN [x EXCEPT !.ok = FALSE,
                   !.ops = Append(@, [ph |-> ph, op |-> op, path |-> path, ok |-> FALSE,
                                      gone |-> {}])]
    ELSE [x EXCEPT !.t = r.t, !.ok = r.ok,
                   !.ops = Append(@, [ph |-> ph, op |-> op, path |-> path, ok |-> r.ok,
                                      gone |-> {q \in FsPaths : exists(x.t, q) /\ ~exists(r.t, q)}])]

OpName(mdl) ==
    CASE mdl.t = "Dir" -> "dir" [] mdl.t = "File" -> "file"
      [] mdl.t = "SymLink" -> "symlink" [] mdl.t = "HardLink" -> "link"

\* install.rs do_mdl_installs_inner(): one bits.rs call per path, in order.
RECURSIVE do_mdl_installs_inner(_, _, _, _, _)
do_mdl_installs_inner(x, paths, hm, fd, ph) ==
    IF paths = <<>> \/ ~x.ok THEN x
    ELSE LET dst == Head(paths)
             mdl == hm[dst]
             r == CASE mdl.t = "Dir" -> dir(x.t, dst)
                    [] mdl.t = "File" -> file(x.t, fd, dst, mdl.v)
                    [] mdl.t = "SymLink" -> symlink(x.t, dst, mdl.v)
                    [] mdl.t = "HardLink" -> link(x.t, dst, mdl.v)
         IN  do_mdl_installs_inner(Performed(x, ph, OpName(mdl), dst, r),
                                   Tail(paths), hm, fd, ph)

\* A faulty batching: the keys in plain path order.
unbatched(keys) == keys

\* do_mdl_installs(): the three batches of a non-directory pass, each in
\* path order: runtime linkers, shared libraries, the rest.
install_batches(keys) ==
    LET lds == SelectSeq(keys, re_linker_file)
        shlibs == SelectSeq(keys, LAMBDA p : ~re_linker_file(p) /\ re_so_file(p))
        rest == SelectSeq(keys, LAMBDA p : ~re_linker_file(p) /\ ~re_so_file(p))
    IN  lds \o shlibs \o rest

\* install.rs do_mdl_installs(): directories in path order, anything else
\* in batches.
do_mdl_installs(x, hm, fd, ph) ==
    do_mdl_installs_inner(x,
        IF \E p \in DOMAIN hm : hm[p].t = "Dir" THEN sorted(DOMAIN hm)
        ELSE install_batches(sorted(DOMAIN hm)),
        hm, fd, ph)

\* SplitTypes::from_map_lines: one map per variant (dirs, files, syms,
\* hards, in the order split() installs them); dash lines are dropped.
from_map_lines(mds) ==
    LET of(t) == [p \in {q \in DOMAIN mds : mds[q].t = t} |-> mds[p]]
    IN  <<of("Dir"), of("File"), of("SymLink"), of("HardLink")>>

\* install.rs split(): directories, files, symlinks, hardlinks; a dry run
\* only prints.
RECURSIVE dry_do_one(_, _, _, _, _)
dry_do_one(x, hms, fd, dry, ph) ==
    IF hms = <<>> THEN x
    ELSE dry_do_one(IF DOMAIN Head(hms) = {} \/ dry \/ ~x.ok THEN x
                    ELSE do_mdl_installs(x, Head(hms), fd, ph),
                    Tail(hms), fd, dry, ph)

split(x, lines, fd, dry, ph) ==
    dry_do_one(x, from_map_lines(lines), fd, dry, ph)

\* A faulty deletion order: forward path order.
forward_order(rms) == sorted(rms)

\* cmd/install.rs handle_removes(): the order of the deletions.
remove_order(rms) == rev(sorted(rms))

RECURSIVE do_removes(_, _, _)
do_removes(x, paths, ph) ==
    IF paths = <<>> \/ ~x.ok THEN x
    ELSE do_removes(Performed(x, ph, "rm", Head(paths), rm(x.t, Head(paths))),
                    Tail(paths), ph)

\* cmd/install.rs handle_removes()
handle_removes(x, rms, dry, ph) ==
    IF rms = {} \/ dry \/ ~x.ok THEN x
    ELSE do_removes(x, remove_order(rms), ph)

\* The kernel backup step of a non-dry run.
do_backup_kernel(x, dry, ph) ==
    IF dry \/ ~x.ok THEN x
    ELSE Performed(x, ph, "backup", KernelSrcDir, backup_kernel(x.t))

\* What a manifest installs: the entries of the added and updated paths.
install_lines(m) ==
    LET csum == change_summary(m)
        ipaths == csum.added \cup csum.updated
    IN  IF m.mtype = "upgrade" THEN mu_get_from_paths(m, ipaths)
        ELSE get_from_paths(m.new, ipaths)

Restrict(f, S) == [p \in DOMAIN f \cap S |-> f[p]]

KernelPaths == {p \in FsPaths : is_kernel_dir(p)}

InstRet(x, iret, kernel, world) ==
    [x |-> x, iret |-> IF x.ok THEN iret ELSE "Err", kernel |-> kernel, world |-> world]

\* cmd/install.rs fetch(): one phase, then done.
fetch(t, fd, mf, dry, io) ==
    LET removed == change_summary(mf).removed
        x1 == do_backup_kernel(Enter(Start(t, io), "fetch"), dry, "fetch")
        x2 == split(x1, install_lines(mf), fd, dry, "fetch")
    IN  InstRet(handle_removes(x2, removed, dry, "fetch"), "Done", FALSE, FALSE)

\* upgrade(): the kernel phase, everything under /boot.
kernel_phase(x, fd, mu, dry) ==
    LET klines == Restrict(install_lines(mu), KernelPaths)
        kremoved == change_summary(mu).removed \cap KernelPaths
        x1 == do_backup_kernel(Enter(x, "kernel"), dry, "kernel")
    IN  handle_removes(split(x1, klines, fd, dry, "kernel"), kremoved, dry, "kernel")

\* upgrade(): what the world phase deletes: the removed paths outside /boot
\* that are neither a runtime linker nor a shared library.
world_removes(removed) ==
    {p \in removed \ KernelPaths : ~re_linker_file(p) /\ ~re_so_file(p)}

\* A faulty world phase that never stops for held-back shared libraries.
rm_sos_never(removed) == FALSE

\* upgrade(): shared libraries were held back from the world phase.
rm_sos(removed) ==
    \E p \in removed \ KernelPaths : ~re_linker_file(p) /\ re_so_file(p)

\* upgrade(): the world phase.
world_phase(x, fd, mu, dry) ==
    LET wlines == Restrict(install_lines(mu), FsPaths \ KernelPaths)
        x1 == split(Enter(x, "world"), wlines, fd, dry, "world")
    IN  handle_removes(x1, world_removes(change_summary(mu).removed), dry, "world")

\* upgrade(): the final cleanup redoes all the deletions.
cleanup_phase(x, mu, dry) ==
    handle_removes(Enter(x, "cleanup"), change_summary(mu).removed, dry, "cleanup")

\* A faulty world phase that saves world_done and forgets kernel_done.
world_forgets_kernel(w, mu, dry, all) == InstRet(w, "Save", FALSE, TRUE)

\* cmd/install.rs upgrade(): the phases not yet done, stopping after the
\* kernel phase, and after the world phase when shared libraries remain to
\* be deleted, unless the run is dry or has --all.
upgrade_world(w, mu, dry, all) ==
    IF ~w.ok THEN InstRet(w, "Err", TRUE, mu.world)
    ELSE IF ~mu.world /\ ~dry /\ ~all /\ rm_sos(change_summary(mu).removed)
    THEN InstRet(w, "Save", TRUE, TRUE)
    ELSE InstRet(cleanup_phase(w, mu, dry), "Done", TRUE, TRUE)

upgrade_kernel(k, fd, mu, dry, all) ==
    IF ~k.ok THEN InstRet(k, "Err", mu.kernel, mu.world)
    ELSE IF ~mu.kernel /\ ~dry /\ ~all THEN InstRet(k, "Save", TRUE, mu.world)
    ELSE upgrade_world(IF mu.world THEN k ELSE world_phase(k, fd, mu, dry),
                       mu, dry, all)

upgrade(t, fd, mu, dry, all, io) ==
    upgrade_kernel(IF mu.kernel THEN Start(t, io) ELSE kernel_phase(Start(t, io), fd, mu, dry),
                   fd, mu, dry, all)

\* A faulty conflict check that lets every manifest through.
unresolved_never(m) == FALSE

\* cmd/install.rs run(): the check for unresolved conflicts.
unresolved(m) == m.mtype = "upgrade" /\ DOMAIN m.merge_conflict # {}

\* A faulty save that does not look at the dry-run flag.
save_state_wet(st, r, dry) ==
    IF r.iret = "Err" THEN st
    ELSE IF r.iret = "Save"
    THEN [st EXCEPT !.manifest = [@ EXCEPT !.kernel = r.kernel, !.world = r.world]]
    ELSE [st EXCEPT !.manifest = [mtype |-> "none"]]

\* run(): what is persisted after the phases return; a dry run saves nothing.
save_state(st, r, dry) ==
    IF dry \/ r.iret = "Err" THEN st
    ELSE IF r.iret = "Save"
    THEN [st EXCEPT !.manifest = [@ EXCEPT !.kernel = r.kernel, !.world = r.world]]
    ELSE [st EXCEPT !.manifest = NoManifest]

Outcome(t, st, ret, x) == [t |-> t, st |-> st, ret |-> ret, x |-> x]

\* run(): after the phases, the state is saved or cleared.
run_finish(st, r, dry) ==
    Outcome(r.x.t, save_state(st, r, dry),
            IF r.iret = "Err" THEN "error" ELSE r.iret, r.x)

\* A faulty check that never finds a file missing.
missing_never(m, fd) == FALSE

\* run(): the check that the expected hashfiles all exist.
missing_files(m, fd) == \E h \in exp_hashes(m) : h \notin DOMAIN fd

\* cmd/install.rs run()
run(t, fd, st, dry, all, io) ==
    IF st.manifest.mtype = "none" THEN Outcome(t, st, "No install pending", Start(t, io))
    ELSE IF unresolved(st.manifest)
    THEN Outcome(t, st, "Unresolved merge conflicts", Start(t, io))
    ELSE IF missing_files(st.manifest, fd)
    THEN Outcome(t, st, "Internal error -- missing files", Start(t, io))
    ELSE run_finish(st, IF st.manifest.mtype = "fetch"
                        THEN fetch(t, fd, st.manifest, dry, io)
                        ELSE upgrade(t, fd, st.manifest, dry, all, io), dry)

(***************************************************************************)
(* resolve-merges (cmd/resolve_merges.rs).  For every conflicted path the  *)
(* user leaves some bytes in the working file and then skips or accepts;   *)
(* accepting is offered only when the conflict-marker regex does not match.*)
(***************************************************************************)
\* The file contents of the model; those ending in ".cfl" are diff3 output
\* with conflict marker lines.
Contents ==
    { "kernel.1", "kernel.2", "old.ko.1", "sh.1", "sh.2", "ld.1", "ld.2",
      "ld32.1", "libc.6", "libc.7", "libx.1", "f.2", "sh.x", "sh.3", "hosts.3",
      "rc.old", "rc.cur", "rc.new", "rc.res", "rc.cfl", "rc.fix", "rc.eq",
      "hosts.old", "hosts.cur", "hosts.new", "hosts.res", "hosts.cfl", "hosts.fix",
      "hosts.eq" }

\* n copies of the byte c.
Rep(c, n) == [i \in 1..n |-> c]

\* The lines of a content.  A conflicted merge (.cfl) is what diffy's
\* merge_bytes writes: the two sides between "<<<<<<< ours" and
\* ">>>>>>> theirs", with "||||||| original" and "=======" in between.  An
\* edit of it is either free of those lines (.fix) or has lost all of them
\* but the "=======" (.eq).
Lines(bytes) ==
    IF bytes \in {"rc.cfl", "hosts.cfl"}
    THEN << Rep("<", 7) \o <<" ", "o", "u", "r", "s">>, <<"c">>,
            Rep("|", 7) \o <<" ", "o", "r", "i", "g", "i", "n", "a", "l">>, <<"o">>,
            Rep("=", 7), <<"n">>,
            Rep(">", 7) \o <<" ", "t", "h", "e", "i", "r", "s">> >>
    ELSE IF bytes \in {"rc.eq", "hosts.eq"}
    THEN << <<"c">>, Rep("=", 7), <<"n">> >>
    ELSE << <<"t">> >>

\* One line against  ^(?:(?:<{7}|>{7}|\|{7}) .*|========)$
cfmarker_line(l) ==
    \/ \E c \in {"<", ">", "|"} : MatchAt(l, 1, Rep(c, 7) \o <<" ">>)
    \/ l = Rep("=", 8)

\* resolve_merges.rs cfmarker.is_match: (?m), so some line matches.
cfmarker(bytes) == \E i \in DOMAIN Lines(bytes) : cfmarker_line(Lines(bytes)[i])

Unhash(h) == CHOOSE c \in Contents : Sha256(c) = h

\* What the user can leave in the working file of a conflicted path: the
\* conflicted merge untouched, or one of its edits.
Edits(f) ==
    IF f = "/etc/rc.conf" THEN {"rc.cfl", "rc.fix", "rc.eq"}
    ELSE {"hosts.cfl", "hosts.fix", "hosts.eq"}

\* A faulty accept that leaves the record among the conflicts as well.
accept_leaves_conflict(acc, f, bytes) ==
    [acc EXCEPT !.fd = (Sha256(bytes) :> compress_gz(bytes)) @@ @,
                !.clean = (f :> [acc.conflict[f] EXCEPT !.res = Sha256(bytes)]) @@ @,
                !.fixed = @ + 1]

\* run(), once the user accepts: the working file is hashed and gzipped into
\* the files directory, and the record moves from the conflicts to the
\* cleans with the new res.
accept(acc, f, bytes) ==
    LET cd == acc.conflict[f]
        cleanhash == Sha256(bytes)
        clean == [old |-> cd.old, new |-> cd.new, cur |-> cd.cur, res |-> cleanhash]
    IN  [acc EXCEPT !.fd = (cleanhash :> compress_gz(bytes)) @@ @,
                    !.conflict = Restrict(@, DOMAIN @ \ {f}),
                    !.clean = (f :> clean) @@ @,
                    !.fixed = @ + 1]

\* One pass of the loop over the conflicted paths: pick[f] is "s" (skip),
\* the bytes left in the working file when the user asks to accept, or "io"
\* when the editor or a read of the working file returns an error.
RECURSIVE resolve_loop(_, _, _)
resolve_loop(acc, cfkeys, pick) ==
    IF cfkeys = <<>> \/ ~acc.ok THEN acc
    ELSE LET f == Head(cfkeys)
         IN  IF acc.conflict[f].res \notin DOMAIN acc.fd \/ pick[f] = "io"
             THEN [acc EXCEPT !.ok = FALSE]
             ELSE IF pick[f] = "s" \/ cfmarker(pick[f])
             THEN resolve_loop(acc, Tail(cfkeys), pick)
             ELSE resolve_loop(accept(acc, f, pick[f]), Tail(cfkeys), pick)

\* cmd/resolve_merges.rs run()
resolve_merges(fd, st, pick) ==
    LET m == st.manifest
        acc0 == [fd |-> fd, conflict |-> m.merge_conflict, clean |-> m.merge_clean,
                 fixed |-> 0, ok |-> TRUE]
        acc == resolve_loop(acc0, sorted(DOMAIN m.merge_conflict), pick)
        nconfls == Cardinality(DOMAIN m.merge_conflict)
    IN  IF m.mtype = "none" THEN [fd |-> fd, st |-> st, ret |-> "No install pending"]
        ELSE IF m.mtype # "upgrade" THEN [fd |-> fd, st |-> st, ret |-> "No pending upgrade"]
        ELSE IF nconfls = 0 THEN [fd |-> fd, st |-> st, ret |-> "No conflicts to resolve"]
        ELSE IF ~acc.ok THEN [fd |-> acc.fd, st |-> st, ret |-> "error"]
        ELSE [fd |-> acc.fd,
              st |-> [st EXCEPT !.manifest = [@ EXCEPT !.merge_clean = acc.clean,
                                                       !.merge_conflict = acc.conflict]],
              ret |-> IF acc.fixed < nconfls THEN "conflicts remain"
                      ELSE "All conflicts resolved"]

(***************************************************************************)
(* The pending manifests and trees the runs start from.  A scenario says   *)
(* which parts of the system the new release changes; cur and new are what *)
(* fetch / upgrade leave in the manifest for it (entries equal on both     *)
(* sides dropped, a hardlink kept when its target changes, missing paths   *)
(* as dashes of cur), and the files directory holds every hash they name.  *)
(***************************************************************************)
ScenarioFlags ==
    [mtype : {"fetch", "upgrade"},
     kern : BOOLEAN,        \* kernel updated, a module removed
     bin : BOOLEAN,         \* /bin/sh updated, with hardlinks /bin/rsh and /boot/kernel/link
     ld : BOOLEAN,          \* runtime linker updated, the 32-bit one removed
     so : BOOLEAN,          \* libc.so.6 replaced by libc.so.7
     compat : {0, 1, 2},    \* /usr/lib/compat removed (1) or turned into a symlink (2)
     etc : {0, 1, 2, 3, 4}, \* merges of rc.conf / hosts: none; clean; conflict;
                            \* both conflict; rc.conf clean and hosts conflict
     opt : BOOLEAN]         \* a directory and a file added

\* Merges are run on top of a release change of everything or of nothing else.
Scenarios ==
    {sc \in ScenarioFlags :
        sc.etc > 0 => \/ sc.kern /\ sc.bin /\ sc.ld /\ sc.so /\ sc.compat = 1 /\ sc.opt
                      \/ ~sc.kern /\ ~sc.bin /\ ~sc.ld /\ ~sc.so /\ sc.compat = 0 /\ ~sc.opt}

If(b, f) == IF b THEN f ELSE EmptyMap

BaseTree(sc) ==
    LET d == {"/", "/bin", "/boot", "/boot/kernel", "/etc", "/lib", "/libexec",
              "/usr", "/usr/lib", "/usr/lib/compat"}
        f == ("/bin/sh" :> FileNode("sh.1", 1)) @@ ("/bin/rsh" :> FileNode("sh.1", 1))
             @@ If(sc.bin, "/boot/kernel/link" :> FileNode("sh.1", 1))
             @@ ("/boot/kernel/kernel" :> FileNode("kernel.1", 2))
             @@ ("/boot/kernel/old.ko" :> FileNode("old.ko.1", 3))
             @@ ("/etc/hosts" :> FileNode("hosts.cur", 4))
             @@ ("/etc/rc.conf" :> FileNode("rc.cur", 5))
             @@ ("/lib/libc.so.6" :> FileNode("libc.6", 6))
             @@ ("/libexec/ld-elf.so.1" :> FileNode("ld.1", 7))
             @@ ("/libexec/ld-elf32.so.1" :> FileNode("ld32.1", 8))
             @@ ("/usr/lib/compat/libx.so.1" :> FileNode("libx.1", 9))
    IN  [p \in FsPaths |-> IF p \in d THEN DirNode
                           ELSE IF p \in DOMAIN f THEN f[p] ELSE NoNode]

MergeRec(name, res) ==
    [old |-> Sha256(name \o ".old"), new |-> Sha256(name \o ".new"),
     cur |-> Sha256(name \o ".cur"), res |-> Sha256(name \o res)]

ScenarioNew(sc) ==
    MkMetadata(
        If(sc.kern, "/boot/kernel/kernel" :> Sha256("kernel.2"))
          @@ If(sc.bin, "/bin/sh" :> Sha256("sh.2"))
          @@ If(sc.ld, "/libexec/ld-elf.so.1" :> Sha256("ld.2"))
          @@ If(sc.so, "/lib/libc.so.7" :> Sha256("libc.7"))
          @@ If(sc.etc > 0, "/etc/rc.conf" :> Sha256("rc.new"))
          @@ If(sc.etc > 2, "/etc/hosts" :> Sha256("hosts.new"))
          @@ If(sc.opt, "/opt/f" :> Sha256("f.2")),
        If(sc.opt, "/opt" :> ""),
        If(sc.compat = 2, "/usr/lib/compat" :> "libcompat"),
        If(sc.bin, "/bin/rsh" :> "/bin/sh")
          @@ If(sc.bin, "/boot/kernel/link" :> "/bin/sh"),
        {})

ScenarioCur(sc) ==
    MkMetadata(
        If(sc.kern, ("/boot/kernel/kernel" :> Sha256("kernel.1"))
                      @@ ("/boot/kernel/old.ko" :> Sha256("old.ko.1")))
          @@ If(sc.bin, "/bin/sh" :> Sha256("sh.1"))
          @@ If(sc.ld, ("/libexec/ld-elf.so.1" :> Sha256("ld.1"))
                         @@ ("/libexec/ld-elf32.so.1" :> Sha256("ld32.1")))
          @@ If(sc.so, "/lib/libc.so.6" :> Sha256("libc.6"))
          @@ If(sc.etc > 0, "/etc/rc.conf" :> Sha256("rc.cur"))
          @@ If(sc.etc > 2, "/etc/hosts" :> Sha256("hosts.cur"))
          @@ If(sc.compat > 0, "/usr/lib/compat/libx.so.1" :> Sha256("libx.1")),
        If(sc.compat > 0, "/usr/lib/compat" :> ""),
        EmptyMap,
        If(sc.bin, "/bin/rsh" :> "/bin/sh")
          @@ If(sc.bin, "/boot/kernel/link" :> "/bin/sh"),
        {p \in allpaths_hashset_nodash(ScenarioNew(sc)) : ~exists(BaseTree(sc), p)})

ScenarioManifest(sc) ==
    MkManifest(sc.mtype, ScenarioCur(sc), ScenarioNew(sc),
        If(sc.etc \in {1, 4}, "/etc/rc.conf" :> MergeRec("rc", ".res")),
        If(sc.etc \in {2, 3}, "/etc/rc.conf" :> MergeRec("rc", ".cfl"))
          @@ If(sc.etc \in {3, 4}, "/etc/hosts" :> MergeRec("hosts", ".cfl")))

\* fetch writes a manifest only when new is not empty, and never merges;
\* upgrade only when cur is not empty.
Pending(sc) ==
    IF sc.mtype = "fetch" THEN sc.etc = 0 /\ ~empty(ScenarioNew(sc))
    ELSE ~empty(ScenarioCur(sc))

NoCommand ==
    [cmd |-> "none", dry |-> FALSE, all |-> FALSE, ret |-> "", phases |-> <<>>,
     ops |-> <<>>, before |-> {}, pre |-> NoManifest, pick |-> <<>>,
     pending |-> FALSE]

PoolIdle == [pc |-> "idle"]

StashIdle == [pc |-> "idle"]

InitOf(sc) ==
    /\ Pending(sc)
    /\ tree = BaseTree(sc)
    /\ state = [manifest |-> ScenarioManifest(sc)]
    /\ filesdir = [h \in ManifestHashes(ScenarioManifest(sc)) |-> compress_gz(Unhash(h))]
    /\ last = NoCommand
    /\ applied = {}
    /\ pool = PoolIdle
    /\ stash = StashIdle

Init == \E sc \in Scenarios : InitOf(sc)

\* What a run leaves behind: tree and state, and the record of the run.
Ran(r, dry, all) ==
    /\ tree' = r.t
    /\ state' = r.st
    /\ last' = [cmd |-> "install", dry |-> dry, all |-> all, ret |-> r.ret,
                phases |-> r.x.phases, ops |-> r.x.ops, before |-> applied,
                pre |-> state.manifest, pick |-> <<>>, pending |-> FALSE]
    /\ applied' = IF r.st.manifest.mtype = "none" THEN {}
                  ELSE applied \cup {r.x.ops[i].path : i \in
                          {j \in DOMAIN r.x.ops : r.x.ops[j].op = "file" /\ r.x.ops[j].ok}}
    /\ UNCHANGED <<filesdir, pool, stash>>

\* One `install` run, with or without --dry-run and --all, and without an
\* I/O error.
Install(dry, all) == Ran(run(tree, filesdir, state, dry, all, 0), dry, all)

Resolved(r, pick) ==
    /\ filesdir' = r.fd
    /\ state' = r.st
    /\ last' = [NoCommand EXCEPT !.cmd = "resolve-merges", !.ret = r.ret,
                                 !.pre = state.manifest, !.pick = pick]
    /\ UNCHANGED <<tree, applied, pool, stash>>

\* One `resolve-merges` run.
ResolveMerges(pick) == Resolved(resolve_merges(filesdir, state, pick), pick)

ConflictKeys == IF state.manifest.mtype = "upgrade"
                THEN DOMAIN state.manifest.merge_conflict ELSE {}

Next ==
    \/ \E dry \in BOOLEAN, all \in BOOLEAN : Install(dry, all)
    \/ \E pick \in [ConflictKeys -> {"s"} \cup Edits("/etc/rc.conf") \cup Edits("/etc/hosts")] :
          /\ \A f \in ConflictKeys : pick[f] = "s" \/ pick[f] \in Edits(f)
          /\ ResolveMerges(pick)

Spec == Init /\ [][Next]_vars

(***************************************************************************)
(* The thread pool (core/pool.rs Pool::run), with the download pool's      *)
(* result handling (core/pool/fetch.rs).  The dispatcher spawns the        *)
(* workers, sends every request down an unbounded channel, drops its       *)
(* sender and then collects results until the result channel is closed,    *)
(* which it is once every worker has left its loop.  A worker takes        *)
(* requests until the request channel is empty and closed.  Whether a      *)
(* request's work succeeds is up to the environment.                       *)
(***************************************************************************)
MaxReqs == 3

MaxThreads == 2

Workers == 1..pool.nthr

Reqs == 1..pool.nreqs

\* The pool before run(): its items, its thread count, empty accumulators.
NewPool(nreqs, nthr) ==
    [pc |-> "spawn", nreqs |-> nreqs, nthr |-> nthr,
     items |-> [i \in 1..nreqs |-> i],
     req |-> <<>>, req_snd |-> TRUE, res |-> <<>>,
     wpc |-> [w \in 1..nthr |-> "unborn"], cur |-> [w \in 1..nthr |-> 0],
     okfiles |-> <<>>, errs |-> <<>>,
     handed |-> [i \in 1..nreqs |-> 0]]

\* A faulty result handler that keeps only the successes.
work_result_oks(p, resp) ==
    IF resp.ok THEN [p EXCEPT !.okfiles = Append(@, resp.file)] ELSE p

\* fetch.rs work_result(): one more success, or one more error.
work_result(p, resp) ==
    IF resp.ok THEN [p EXCEPT !.okfiles = Append(@, resp.file)]
    ELSE [p EXCEPT !.errs = Append(@, resp.file)]

\* A faulty dispatcher that keeps its request sender.
keep_req_snd(p) == [p EXCEPT !.pc = "collect"]

\* pool.rs drop(req_snd): the request channel closes once it is empty.
drop_req_snd(p) == [p EXCEPT !.req_snd = FALSE, !.pc = "collect"]

\* crossbeam recv() on the request channel fails: empty and no sender left.
req_disconnected(p) == p.req = <<>> /\ ~p.req_snd

\* recv() on the result channel fails: empty, and every sender (one clone
\* per worker, the dispatcher's own dropped after the spawns) is gone.
res_disconnected(p) ==
    p.res = <<>> /\ p.pc = "collect" /\ \A w \in 1..p.nthr : p.wpc[w] = "exit"

PoolFrame == UNCHANGED <<tree, filesdir, state, last, applied, stash>>

\* s.spawn(): the next worker starts at the top of its loop.
Spawn ==
    /\ pool.pc = "spawn"
    /\ \E w \in Workers :
          /\ pool.wpc[w] = "unborn"
          /\ \A v \in Workers : v < w => pool.wpc[v] # "unborn"
          /\ pool' = [pool EXCEPT !.wpc[w] = "recv"]
    /\ PoolFrame

\* All workers spawned: drop(req_rcv), drop(res_snd), on to the send loop.
Spawned ==
    /\ pool.pc = "spawn"
    /\ \A w \in Workers : pool.wpc[w] # "unborn"
    /\ pool' = [pool EXCEPT !.pc = "send"]
    /\ PoolFrame

\* req_snd.send(i) for the next item; the channel is unbounded.
MainSend ==
    /\ pool.pc = "send" /\ pool.items # <<>>
    /\ pool' = [pool EXCEPT !.req = Append(@, Head(pool.items)), !.items = Tail(@)]
    /\ PoolFrame

MainDrop ==
    /\ pool.pc = "send" /\ pool.items = <<>>
    /\ pool' = drop_req_snd(pool)
    /\ PoolFrame

\* res_rcv.recv() returned a result: work_result().
MainRecv ==
    /\ pool.pc = "collect" /\ pool.res # <<>>
    /\ pool' = work_result([pool EXCEPT !.res = Tail(@)], Head(pool.res))
    /\ PoolFrame

\* res_rcv.recv() failed: finalize() and return.
MainFinish ==
    /\ res_disconnected(pool)
    /\ pool' = [pool EXCEPT !.pc = "done"]
    /\ PoolFrame

\* reqs.recv() returned a request.
WorkerRecv(w) ==
    /\ pool.wpc[w] = "recv" /\ pool.req # <<>>
    /\ pool' = [pool EXCEPT !.wpc[w] = "work", !.cur[w] = Head(pool.req),
                            !.req = Tail(@), !.handed[Head(pool.req)] = @ + 1]
    /\ PoolFrame

\* Self::work() on the request, and ress.send() of its result.
WorkerWork(w) ==
    /\ pool.wpc[w] = "work"
    /\ \E ok \in BOOLEAN :
          pool' = [pool EXCEPT !.wpc[w] = "recv", !.cur[w] = 0,
                               !.res = Append(@, [file |-> pool.cur[w], ok |-> ok])]
    /\ PoolFrame

\* reqs.recv() failed: the worker falls off its loop.
WorkerExit(w) ==
    /\ pool.wpc[w] = "recv" /\ req_disconnected(pool)
    /\ pool' = [pool EXCEPT !.wpc[w] = "exit"]
    /\ PoolFrame

IdleTree == [p \in FsPaths |-> IF p = "/" THEN DirNode ELSE NoNode]

InitPool ==
    /\ \E nreqs \in 0..MaxReqs, nthr \in 1..MaxThreads : pool = NewPool(nreqs, nthr)
    /\ tree = IdleTree /\ filesdir = <<>> /\ state = [manifest |-> NoManifest]
    /\ last = NoCommand /\ applied = {} /\ stash = StashIdle

MainStep == Spawn \/ Spawned \/ MainSend \/ MainDrop \/ MainRecv \/ MainFinish

WorkerStep(w) == WorkerRecv(w) \/ WorkerWork(w) \/ WorkerExit(w)

NextPool ==
    \/ Spawn \/ Spawned \/ MainSend \/ MainDrop \/ MainRecv \/ MainFinish
    \/ \E w \in Workers : WorkerRecv(w)
    \/ \E w \in Workers : WorkerWork(w)
    \/ \E w \in Workers : WorkerExit(w)

SpecPool == InitPool /\ [][NextPool]_vars

\* Every thread that can run eventually does.
SpecPoolFair ==
    /\ SpecPool
    /\ WF_vars(MainStep)
    /\ \A w \in 1..MaxThreads : WF_vars(w \in Workers /\ WorkerStep(w))

Count(seq, x) == Cardinality({i \in DOMAIN seq : seq[i] = x})

\* C4: no request is ever handed to work() twice, and when run() returns
\* every request has been handed to it once and has one entry in the result,
\* among the successes or among the errors.
C4_ExactlyOnce ==
    pool.pc # "idle" =>
        /\ \A i \in Reqs : pool.handed[i] <= 1
        /\ \A i \in Reqs : Count(pool.okfiles, i) + Count(pool.errs, i) <= pool.handed[i]
        /\ pool.pc = "done" =>
              \A i \in Reqs : /\ pool.handed[i] = 1
                              /\ Count(pool.okfiles, i) + Count(pool.errs, i) = 1

\* A run returned with a failure collected before a success.
C4_Witness ==
    /\ pool.pc = "done" /\ pool.nreqs >= 2
    /\ pool.errs # <<>> /\ pool.okfiles # <<>>
    /\ pool.errs[1] < pool.okfiles[Len(pool.okfiles)]

PoolReturned ==
    /\ pool.pc = "done"
    /\ pool.items = <<>> /\ pool.req = <<>> /\ pool.res = <<>>
    /\ \A w \in Workers : pool.wpc[w] = "exit"

\* C5: every fair run of the pool returns, with the request queue drained
\* and every worker out of its loop.
C5_PoolReturns == <>PoolReturned

\* A run of two workers returned after each had taken a request.
C5_Witness ==
    /\ PoolReturned /\ pool.nthr >= 2
    /\ Len(pool.okfiles) + Len(pool.errs) >= 2

(***************************************************************************)
(* fetch, from the scan of the live system to the saved manifest           *)
(* (cmd/fetch.rs), with the stash of the current files                     *)
(* (metadata/files.rs stash_files, core/pool/stash.rs stash_worker).  The  *)
(* stash requests run in any interleaving, as the pool's workers take      *)
(* them; each goes through stash_worker's system calls one at a time.      *)
(* Meanwhile the live files can be written by anything else on the system. *)
(***************************************************************************)
MaxEdits == 1

ScanPaths == {"/bin/sh", "/etc/hosts"}

\* The bytes of a scanned path: in the running release, in the release to
\* fetch, and after a write by someone else.
OldBytes(p) == IF p = "/bin/sh" THEN "sh.1" ELSE "hosts.cur"

NewBytes(p) == IF p = "/bin/sh" THEN "sh.2" ELSE "hosts.new"

EditBytes(p) == IF p = "/bin/sh" THEN "sh.x" ELSE "hosts.fix"

FilesOf(f) == MkMetadata(f, EmptyMap, EmptyMap, EmptyMap, {})

\* A faulty filter that drops nothing.
remove_nothing(f, other) == f

\* Metadata::remove_matching, over the file entries.
remove_matching(f, other) ==
    Restrict(f, {p \in DOMAIN f : p \notin DOMAIN other \/ other[p] # f[p]})

\* Metadata::files_no_hash_dir: the files whose <hash>.gz is missing.
files_no_hash_dir(f, fd) == {p \in DOMAIN f : f[p] \notin DOMAIN fd}

\* Metadata::stash_files: one request per distinct hash, in path order.
stash_reqs(f, fd) ==
    {p \in files_no_hash_dir(f, fd) :
        \A q \in files_no_hash_dir(f, fd) : f[q] = f[p] => ~PathLess(q, p)}

StashFrame == UNCHANGED <<last, applied, pool>>

\* cmd/fetch.rs: scan::scan over the live tree against the release's index,
\* and the entries left on each side once the matching ones are dropped.
fetch_scan(t) ==
    LET scanned == [p \in {q \in ScanPaths : t[q].k = "file"} |-> Sha256(t[p].c)]
        release == [p \in ScanPaths |-> Sha256(NewBytes(p))]
    IN  [new |-> remove_matching(release, scanned),
         cur |-> remove_matching(scanned, release)]

\* The scan, the filters, and the stash requests.
FetchScan ==
    /\ stash.pc = "scan"
    /\ LET new == fetch_scan(tree).new
           cur == fetch_scan(tree).cur
       IN  stash' = IF DOMAIN new = {} THEN [stash EXCEPT !.pc = "done"]
                    ELSE [stash EXCEPT !.pc = "stash", !.cur = cur, !.new = new,
                             !.w = [p \in stash_reqs(cur, filesdir) |->
                                       [pc |-> "start", tmp |-> "", tmpgz |-> compress_gz("")]]]
    /\ UNCHANGED <<tree, filesdir, state>> /\ StashFrame

\* stash_worker: srcpath.is_file(), then fs::copy(srcpath, tmp/<hash>).
StashCopy(p) ==
    /\ stash.pc = "stash" /\ p \in DOMAIN stash.w /\ stash.w[p].pc = "start"
    /\ stash' = IF tree[p].k # "file" THEN [stash EXCEPT !.w[p].pc = "err"]
                ELSE [stash EXCEPT !.w[p].pc = "copied", !.w[p].tmp = tree[p].c]
    /\ UNCHANGED <<tree, filesdir, state>> /\ StashFrame

\* stash_worker: check_sha256_file(tmp/<hash>, hash).
StashVerify(p) ==
    /\ stash.pc = "stash" /\ p \in DOMAIN stash.w /\ stash.w[p].pc = "copied"
    /\ stash' = IF Sha256(stash.w[p].tmp) = stash.cur[p]
                THEN [stash EXCEPT !.w[p].pc = "verified"]
                ELSE [stash EXCEPT !.w[p].pc = "err"]
    /\ UNCHANGED <<tree, filesdir, state>> /\ StashFrame

\* stash_worker: compress_gz(srcpath, tmp/<hash>.gz).
StashCompress(p) ==
    /\ stash.pc = "stash" /\ p \in DOMAIN stash.w /\ stash.w[p].pc = "verified"
    /\ stash' = IF tree[p].k # "file" THEN [stash EXCEPT !.w[p].pc = "err"]
                ELSE [stash EXCEPT !.w[p].pc = "compressed",
                                   !.w[p].tmpgz = compress_gz(tree[p].c)]
    /\ UNCHANGED <<tree, filesdir, state>> /\ StashFrame

\* stash_worker: fs::rename(tmp/<hash>.gz, filesdir/<hash>.gz).
StashRename(p) ==
    /\ stash.pc = "stash" /\ p \in DOMAIN stash.w /\ stash.w[p].pc = "compressed"
    /\ filesdir' = (stash.cur[p] :> stash.w[p].tmpgz) @@ filesdir
    /\ stash' = [stash EXCEPT !.w[p].pc = "ok"]
    /\ UNCHANGED <<tree, state>> /\ StashFrame

\* stash_files returned: any error ends fetch, otherwise on to the downloads.
StashDone ==
    /\ stash.pc = "stash"
    /\ \A p \in DOMAIN stash.w : stash.w[p].pc \in {"ok", "err"}
    /\ stash' = [stash EXCEPT !.pc = IF \E p \in DOMAIN stash.w : stash.w[p].pc = "err"
                                     THEN "failed" ELSE "download"]
    /\ UNCHANGED <<tree, filesdir, state>> /\ StashFrame

\* hashfetch::get for new's hashes without a <hash>.gz: every object arrives
\* and passes its hash check, or fetch ends with an error.
FetchDownload ==
    /\ stash.pc = "download"
    /\ \E got \in BOOLEAN :
          IF got
          THEN /\ filesdir' = [h \in {stash.new[p] : p \in DOMAIN stash.new} \ DOMAIN filesdir
                                  |-> compress_gz(Unhash(h))] @@ filesdir
               /\ stash' = [stash EXCEPT !.pc = "save"]
          ELSE /\ filesdir' = filesdir
               /\ stash' = [stash EXCEPT !.pc = "failed"]
    /\ UNCHANGED <<tree, state>> /\ StashFrame

\* Manifest::new_fetch(cur, new) and state_save.
FetchSave ==
    /\ stash.pc = "save"
    /\ state' = [state EXCEPT !.manifest =
                    MkManifest("fetch", FilesOf(stash.cur), FilesOf(stash.new),
                               EmptyMap, EmptyMap)]
    /\ stash' = [stash EXCEPT !.pc = "done"]
    /\ UNCHANGED <<tree, filesdir>> /\ StashFrame

\* Something else on the system rewrites a scanned file while fetch runs.
EnvWrite(p) ==
    /\ stash.pc \in {"scan", "stash", "download", "save"}
    /\ stash.edits < MaxEdits
    /\ tree[p].k = "file" /\ tree[p].c # EditBytes(p)
    /\ tree' = [tree EXCEPT ![p].c = EditBytes(p)]
    /\ stash' = [stash EXCEPT !.edits = @ + 1]
    /\ UNCHANGED <<filesdir, state>> /\ StashFrame

\* The objects an earlier run can have left in the files directory.
KnownObjects == {Sha256(OldBytes(p)) : p \in ScanPaths} \cup {Sha256(NewBytes(p)) : p \in ScanPaths}

InitStash ==
    /\ \E upd \in SUBSET ScanPaths :
          tree = [p \in FsPaths |->
                    IF p \in {"/", "/bin", "/etc"} THEN DirNode
                    ELSE IF p = "/bin/sh"
                    THEN FileNode(IF p \in upd THEN NewBytes(p) ELSE OldBytes(p), 1)
                    ELSE IF p = "/etc/hosts"
                    THEN FileNode(IF p \in upd THEN NewBytes(p) ELSE OldBytes(p), 2)
                    ELSE NoNode]
    /\ \E have \in SUBSET KnownObjects :
          filesdir = [h \in have |-> compress_gz(Unhash(h))]
    /\ state = [manifest |-> NoManifest]
    /\ stash = [pc |-> "scan", cur |-> EmptyMap, new |-> EmptyMap, w |-> EmptyMap,
                edits |-> 0]
    /\ last = NoCommand /\ applied = {} /\ pool = PoolIdle

NextStash ==
    \/ FetchScan
    \/ \E p \in ScanPaths : StashCopy(p)
    \/ \E p \in ScanPaths : StashVerify(p)
    \/ \E p \in ScanPaths : StashCompress(p)
    \/ \E p \in ScanPaths : StashRename(p)
    \/ StashDone
    \/ FetchDownload
    \/ FetchSave
    \/ \E p \in ScanPaths : EnvWrite(p)

SpecStash == InitStash /\ [][NextStash]_vars

(***************************************************************************)
(* The subcommands that read or write the saved state, run one after the   *)
(* other on one system: install and resolve-merges as above, clean         *)
(* (cmd/clean.rs), show-install and show-merges, and fetch (cmd/fetch.rs)  *)
(* run from start to end with nothing else writing the live files.  An     *)
(* object of the files directory can go missing between two commands, which *)
(* is what install's check of the required files looks for.                *)
(***************************************************************************)
\* A faulty check that never sees an upgrade in progress.
never_in_progress(st) == FALSE

\* State::upgrade_in_progress
upgrade_in_progress(st) == st.manifest.mtype = "upgrade" /\ st.manifest.kernel

\* cmd/clean.rs run()
clean(st, pending) ==
    IF ~pending THEN [st |-> st, ret |-> "Nothing requested to be done"]
    ELSE IF st.manifest.mtype = "none"
    THEN [st |-> st, ret |-> "No pending updates to clear."]
    ELSE [st |-> [st EXCEPT !.manifest = NoManifest], ret |-> "Pending cleared."]

Clean(pending) ==
    /\ state' = clean(state, pending).st
    /\ last' = [NoCommand EXCEPT !.cmd = "clean", !.ret = clean(state, pending).ret,
                                 !.pre = state.manifest, !.pending = pending]
    /\ UNCHANGED <<tree, filesdir, applied, pool, stash>>

\* cmd/show_install.rs run(): prints the summary of the pending manifest.
show_install(st) ==
    IF st.manifest.mtype = "none" THEN "No install pending." ELSE "shown"

\* cmd/show_merges.rs run(): prints the diff of every clean merge, reading
\* the objects of its cur and res.
show_merges(fd, st) ==
    IF st.manifest.mtype = "none" THEN "No install pending."
    ELSE IF st.manifest.mtype # "upgrade" THEN "No pending upgrade, no merges to show."
    ELSE IF \E f \in DOMAIN st.manifest.merge_clean :
                {st.manifest.merge_clean[f].cur, st.manifest.merge_clean[f].res}
                    \ DOMAIN fd # {}
    THEN "error"
    ELSE "shown"

Show(cmd) ==
    /\ last' = [NoCommand EXCEPT !.cmd = cmd, !.pre = state.manifest,
                    !.ret = IF cmd = "show-install" THEN show_install(state)
                            ELSE show_merges(filesdir, state)]
    /\ UNCHANGED <<tree, filesdir, state, applied, pool, stash>>

\* Metadata::stash_files with nothing else writing: every request's file is
\* copied, verified and gzipped as it was scanned.
stash_files(t, fd, cur) ==
    [h \in {cur[p] : p \in stash_reqs(cur, fd)} |->
        compress_gz(t[CHOOSE p \in stash_reqs(cur, fd) : cur[p] = h].c)] @@ fd

\* The bytes of a scanned path in the release that `upgrade -r` names, the
\* one after the running release.
UpgBytes(p) == IF p = "/bin/sh" THEN "sh.3" ELSE "hosts.3"

\* cmd/upgrade.rs: the scan of the live tree against the index of the
\* release asked for, and what is left on each side.
upgrade_scan(t) ==
    LET scanned == [p \in {q \in ScanPaths : t[q].k = "file"} |-> Sha256(t[p].c)]
        release == [p \in ScanPaths |-> Sha256(UpgBytes(p))]
    IN  [new |-> remove_matching(release, scanned),
         cur |-> remove_matching(scanned, release)]

\* info/version.rs get(): the running release is the one that the installed
\* <basedir>/bin/freebsd-version reports.  The files of /bin are of one
\* release, and /bin/sh stands for them.
upgraded(t) == t["/bin/sh"].k = "file" /\ t["/bin/sh"].c = UpgBytes("/bin/sh")

\* cmd/fetch.rs run(): refuses over a partially installed upgrade; returns
\* when the scan leaves nothing in new; otherwise stashes cur's files,
\* downloads new's (got says whether the downloads succeed) and saves the
\* new fetch manifest over whatever the state held.
fetch_run(t, fd, st, sc, got) ==
    IF upgrade_in_progress(st) THEN [fd |-> fd, st |-> st, ret |-> "upgrade in progress"]
    ELSE IF DOMAIN sc.new = {} THEN [fd |-> fd, st |-> st, ret |-> "No updates needed"]
    ELSE IF ~got THEN [fd |-> stash_files(t, fd, sc.cur), st |-> st, ret |-> "error"]
    ELSE [fd |-> [h \in {sc.new[p] : p \in DOMAIN sc.new} |-> compress_gz(Unhash(h))]
                    @@ stash_files(t, fd, sc.cur),
          st |-> [st EXCEPT !.manifest =
                     MkManifest("fetch", FilesOf(sc.cur), FilesOf(sc.new),
                                EmptyMap, EmptyMap)],
          ret |-> "Run install"]

Fetched(r) ==
    /\ filesdir' = r.fd
    /\ state' = r.st
    /\ last' = [NoCommand EXCEPT !.cmd = "fetch", !.ret = r.ret, !.pre = state.manifest]
    /\ UNCHANGED <<tree, applied, pool, stash>>

\* One `fetch` run, against the index of the running release.
Fetch(got) ==
    Fetched(fetch_run(tree, filesdir, state,
                      IF upgraded(tree) THEN upgrade_scan(tree) ELSE fetch_scan(tree), got))

\* cmd/upgrade.rs run(): check() refuses to upgrade a release to itself;
\* run() refuses over a partially installed upgrade and bails when the
\* scan leaves nothing in cur; otherwise it stashes cur's files, downloads
\* new's (got says whether the downloads succeed) and saves the new
\* upgrade manifest, no file of it to merge, over whatever the state held.
upgrade_run(t, fd, st, sc, got) ==
    IF upgraded(t) THEN [fd |-> fd, st |-> st, ret |-> "Cannot upgrade to itself"]
    ELSE IF upgrade_in_progress(st) THEN [fd |-> fd, st |-> st, ret |-> "upgrade in progress"]
    ELSE IF DOMAIN sc.cur = {} THEN [fd |-> fd, st |-> st, ret |-> "error"]
    ELSE IF ~got THEN [fd |-> stash_files(t, fd, sc.cur), st |-> st, ret |-> "error"]
    ELSE [fd |-> [h \in {sc.new[p] : p \in DOMAIN sc.new} |-> compress_gz(Unhash(h))]
                    @@ stash_files(t, fd, sc.cur),
          st |-> [st EXCEPT !.manifest =
                     MkManifest("upgrade", FilesOf(sc.cur), FilesOf(sc.new),
                                EmptyMap, EmptyMap)],
          ret |-> "Run install"]

\* One `upgrade` run.
Upgrade(got) ==
    LET r == upgrade_run(tree, filesdir, state, upgrade_scan(tree), got)
    IN  /\ filesdir' = r.fd
        /\ state' = r.st
        /\ last' = [NoCommand EXCEPT !.cmd = "upgrade", !.ret = r.ret, !.pre = state.manifest]
        /\ UNCHANGED <<tree, applied, pool, stash>>

\* An object that cur or new of the pending manifest refers to goes missing
\* from a files directory that had them all, before the first command or
\* between two runs of install.
LoseObject(h) ==
    /\ last.cmd = "none" \/ (last.cmd = "install" /\ last.ret = "Save")
    /\ state.manifest.mtype # "none"
    /\ exp_hashes(state.manifest) \subseteq DOMAIN filesdir
    /\ h \in exp_hashes(state.manifest)
    /\ filesdir' = [g \in DOMAIN filesdir \ {h} |-> filesdir[g]]
    /\ last' = [NoCommand EXCEPT !.cmd = "lost", !.pre = state.manifest]
    /\ UNCHANGED <<tree, state, applied, pool, stash>>

\* The release changes everything or nothing besides the merged files.
CmdScenarios ==
    {sc \in Scenarios :
        \/ sc.kern /\ sc.bin /\ sc.ld /\ sc.so /\ sc.compat = 1 /\ sc.opt
        \/ ~sc.kern /\ ~sc.bin /\ ~sc.ld /\ ~sc.so /\ sc.compat = 0 /\ ~sc.opt}

InitCmds == \E sc \in CmdScenarios : InitOf(sc)

NextCmds ==
    \/ \E dry \in BOOLEAN, all \in BOOLEAN : Install(dry, all)
    \/ \E pick \in [ConflictKeys -> {"s"} \cup Edits("/etc/rc.conf") \cup Edits("/etc/hosts")] :
          /\ \A f \in ConflictKeys : pick[f] = "s" \/ pick[f] \in Edits(f)
          /\ ResolveMerges(pick)
    \/ \E pending \in BOOLEAN : Clean(pending)
    \/ \E cmd \in {"show-install", "show-merges"} : Show(cmd)
    \/ \E got \in BOOLEAN : Fetch(got)
    \/ \E h \in DOMAIN filesdir : LoseObject(h)

SpecCmds == InitCmds /\ [][NextCmds]_vars

\* The commands that write a manifest, install it or discard it: install,
\* fetch, upgrade and clean.
NextPending ==
    \/ \E dry \in BOOLEAN, all \in BOOLEAN : Install(dry, all)
    \/ \E pending \in BOOLEAN : Clean(pending)
    \/ \E got \in BOOLEAN : Fetch(got)
    \/ \E got \in BOOLEAN : Upgrade(got)

SpecPending == InitCmds /\ [][NextPending]_vars

(***************************************************************************)
(* The downloads of one fetch run (cmd/fetch.rs): the metadata files,      *)
(* fetched straight into the files directory and checked afterwards        *)
(* (metadata/idx.rs check_hashes); the binary patches, fetched into the    *)
(* run's temporary directory, applied (core/pool/patch.rs) and checked     *)
(* (core/pool/hashcheck.rs); and the objects still missing, fetched into   *)
(* the temporary directory and checked (core/hashfetch.rs).  Every pool    *)
(* runs its requests in any interleaving.  A download (core/pool/fetch.rs  *)
(* scan_worker) creates its output file and then either gets the right     *)
(* bytes, gets wrong bytes, is refused by the server, or breaks off.  The  *)
(* temporary directory is a TempDir and goes away when the command ends.   *)
(***************************************************************************)
GetPaths == {"/bin/rsh", "/bin/sh", "/etc/hosts"}

\* /bin/rsh and /bin/sh are two identical files, in both releases.
RelOld(p) == IF p = "/etc/hosts" THEN "hosts.cur" ELSE "sh.1"

RelNew(p) == IF p = "/etc/hosts" THEN "hosts.new" ELSE "sh.2"

\* The metadata files named by the release's index, and the one named by
\* the index a previous run left in the state.
IdxMeta == {Sha256("INDEX-OLD"), Sha256("INDEX-NEW")}

PrevMeta == {Sha256("INDEX-PREV")}

GetBytes == {"sh.1", "sh.2", "hosts.cur", "hosts.new", "INDEX-OLD", "INDEX-NEW", "INDEX-PREV"}

Hashes == {Sha256(c) : c \in GetBytes}

\* The bytes the mirror should serve for a hash.
Plain(h) == CHOOSE c \in GetBytes : Sha256(c) = h

\* format!("{}.gz", h) and format!("{}-{}", old, new)
GzName(h) == h \o ".gz"

PatchName(in, out) == in \o "-" \o out

\* trim_end_matches(".gz") and splitn(2, '-') on such names.
trim_gz(name) == CHOOSE h \in Hashes : GzName(h) = name

splitn(name) == CHOOSE io \in Hashes \X Hashes : PatchName(io[1], io[2]) = name

\* What a file of either directory can hold: a whole gzip member
\* (compress_gz), plain bytes, a patch, or a file that was created and not
\* written to its end.
Truncated == [gz |-> "", cut |-> TRUE]

Raw(bytes) == [raw |-> bytes]

Bsdiff(name) == [patch |-> name]

is_gz(z) == DOMAIN z = {"gz"}

\* Some order of a set, as the iteration of a HashSet or HashMap gives.
SeqOf(S) == CHOOSE q \in [1..Cardinality(S) -> S] : \A x \in S : \E i \in 1..Cardinality(S) : q[i] = x

\* A pool run over the requests reqs, none of them taken yet.
StartPool(st, pc, reqs) ==
    [st EXCEPT !.pc = pc, !.reqs = reqs, !.w = [i \in DOMAIN reqs |-> "queued"]]

PoolDone == \A i \in DOMAIN stash.w : stash.w[i] \in {"ok", "err"}

PoolErrs == \E i \in DOMAIN stash.w : stash.w[i] = "err"

\* The requests that succeeded, for the pool's result.
oks == {i \in DOMAIN stash.w : stash.w[i] = "ok"}

okfiles ==
    [k \in 1..Cardinality(oks) |->
        stash.reqs[CHOOSE i \in oks : Cardinality({j \in oks : j < i}) = k - 1]]

\* The command returns: RtDirs is dropped and its TempDir with it.
Exit(st, ret) == [st EXCEPT !.pc = ret, !.tmp = EmptyMap, !.reqs = <<>>, !.w = <<>>]

GetFrame == UNCHANGED <<tree, state, last, applied, pool>>

\* MetadataIdx::not_in_dir: the metadata files without a <hash>.gz file.
not_in_dir(idx, fd) == {GzName(h) : h \in idx \ DOMAIN fd}

\* cmd/fetch.rs 86-105: metamiss, and fetch_metafiles into the files dir.
GetMeta ==
    /\ stash.pc = "start"
    /\ LET metamiss == not_in_dir(IdxMeta, filesdir) \cup not_in_dir(stash.prev, filesdir)
       IN  stash' = IF metamiss = {} THEN [stash EXCEPT !.pc = "metacheck"]
                    ELSE StartPool(stash, "metafetch", SeqOf(metamiss))
    /\ UNCHANGED filesdir /\ GetFrame

\* scan_worker: fs::File::create(outpath), under the file's final name in
\* the pool's output directory.
ScanCreate(i) ==
    /\ stash.pc \in {"metafetch", "patchfetch", "get"}
    /\ i \in DOMAIN stash.w /\ stash.w[i] = "queued"
    /\ IF stash.pc = "metafetch"
       THEN /\ filesdir' = (trim_gz(stash.reqs[i]) :> Truncated) @@ filesdir
            /\ stash' = [stash EXCEPT !.w[i] = "open"]
       ELSE /\ filesdir' = filesdir
            /\ stash' = [stash EXCEPT !.w[i] = "open",
                                      !.tmp = (stash.reqs[i] :> Truncated) @@ @]
    /\ GetFrame

\* What a finished transfer leaves in the file: the bytes asked for, or
\* other bytes.
Served(pc, name, good) ==
    IF pc = "patchfetch" THEN Bsdiff(IF good THEN name ELSE "junk")
    ELSE compress_gz(IF good THEN Plain(trim_gz(name)) ELSE "junk")

\* A directory after the request of scan_worker: refused ("http"), the file
\* is removed; broken off in io::copy ("io"), the file stays as it is;
\* otherwise the transfer is written and synced.
Scanned(d, key, pc, name, out) ==
    IF out = "http" THEN Restrict(d, DOMAIN d \ {key})
    ELSE IF out = "io" THEN d
    ELSE (key :> Served(pc, name, out = "ok")) @@ d

\* scan_worker from the request to its return.
ScanFinish(i, out) ==
    /\ stash.pc \in {"metafetch", "patchfetch", "get"}
    /\ i \in DOMAIN stash.w /\ stash.w[i] = "open"
    /\ LET name == stash.reqs[i]
           res == IF out \in {"ok", "bad"} THEN "ok" ELSE "err"
       IN  IF stash.pc = "metafetch"
           THEN /\ filesdir' = Scanned(filesdir, trim_gz(name), stash.pc, name, out)
                /\ stash' = [stash EXCEPT !.w[i] = res]
           ELSE /\ filesdir' = filesdir
                /\ stash' = [stash EXCEPT !.w[i] = res,
                                !.tmp = Scanned(stash.tmp, name, stash.pc, name, out)]
    /\ GetFrame

\* fetch_files_from_to returned to fetch_metafiles(files)?: any error ends
\* the command.
MetaFetched ==
    /\ stash.pc = "metafetch" /\ PoolDone
    /\ stash' = IF PoolErrs THEN Exit(stash, "failed") ELSE [stash EXCEPT !.pc = "metacheck"]
    /\ UNCHANGED filesdir /\ GetFrame

\* The metadata files of the index that check_hashes finds wrong: no gzip
\* to decompress, or bytes of another hash.
efiles(fd) == {h \in IdxMeta : h \notin DOMAIN fd \/ ~is_gz(fd[h]) \/ Sha256(decompress(fd[h])) # h}

\* mdidx.check_hashes(files, tmp): the wrong ones are removed from the files
\* directory and reported, and the command bails; otherwise it goes on to
\* the scan.
MetaCheck ==
    /\ stash.pc = "metacheck"
    /\ IF efiles(filesdir) = {}
       THEN /\ filesdir' = filesdir
            /\ stash' = [stash EXCEPT !.pc = "plan",
                            !.tmp = [h \in IdxMeta |-> Raw(decompress(filesdir[h]))]]
       ELSE /\ filesdir' = Restrict(filesdir, DOMAIN filesdir \ efiles(filesdir))
            /\ stash' = [Exit(stash, "failed") EXCEPT !.reported = efiles(filesdir)]
    /\ GetFrame

\* Metadata::intersect_files_hash: the paths with the same hash in both.
intersect_files_hash(a, b) == {p \in DOMAIN a \cap DOMAIN b : a[p] = b[p]}

\* cmd/fetch.rs 279-318: one patch name per path whose old object is there
\* and whose new object is not.
maybe_patches(cur, old, new, fd) ==
    LET paths == SeqOf({p \in intersect_files_hash(cur, old) :
                          /\ p \in DOMAIN new /\ new[p] # cur[p]
                          /\ cur[p] \in DOMAIN fd /\ new[p] \notin DOMAIN fd})
    IN  [i \in DOMAIN paths |-> PatchName(cur[paths[i]], new[paths[i]])]

\* The release's old metadata.
GetOld == [p \in GetPaths |-> Sha256(RelOld(p))]

\* The patch requests of the run, or on to the missing objects.
Planned(st, patches) ==
    IF patches = <<>> THEN [st EXCEPT !.pc = "need"] ELSE StartPool(st, "patchfetch", patches)

\* cmd/fetch.rs 246-325: cur's files are stashed, then fetch_patch_files
\* for maybe_patches.
GetPlan ==
    /\ stash.pc = "plan"
    /\ filesdir' = [h \in {stash.cur[p] : p \in DOMAIN stash.cur} \ DOMAIN filesdir
                       |-> compress_gz(Plain(h))] @@ filesdir
    /\ stash' = Planned(stash, maybe_patches(stash.cur, GetOld, stash.new, filesdir'))
    /\ GetFrame

\* fetch_patch_files returned its okfiles, errors dropped; pc::patch starts
\* the patch pool over them.
PatchFetched ==
    /\ stash.pc = "patchfetch" /\ PoolDone
    /\ stash' = IF okfiles = <<>> THEN [stash EXCEPT !.pc = "need", !.reqs = <<>>, !.w = <<>>]
                ELSE StartPool(stash, "patch", okfiles)
    /\ UNCHANGED filesdir /\ GetFrame

\* util/compress.rs decompress_gz_dirs(srcdir, tmp, name): nothing to do if
\* the output file is there; otherwise the output is created and the gzip
\* decompressed into it, which fails without a whole gzip to read.
decompress_gz_dirs(src, tmp, name) ==
    LET h == trim_gz(name)
    IN  IF h \in DOMAIN tmp THEN [tmp |-> tmp, ok |-> TRUE]
        ELSE IF name \in DOMAIN src /\ is_gz(src[name])
        THEN [tmp |-> (h :> Raw(decompress(src[name]))) @@ tmp, ok |-> TRUE]
        ELSE [tmp |-> (h :> Raw("")) @@ tmp, ok |-> FALSE]

\* The files directory under its file names.
Named(fd) == [n \in {GzName(h) : h \in DOMAIN fd} |-> fd[trim_gz(n)]]

\* patch_worker after the source is in place: bspatch::patch creates the
\* output and applies the patch file to the source.
bspatch(tmp, in, out, name) ==
    IF name \in DOMAIN tmp /\ tmp[name] = Bsdiff(name) /\ tmp[in] = Raw(Plain(in))
    THEN [tmp |-> (out :> Raw(Plain(out))) @@ tmp, res |-> "ok"]
    ELSE [tmp |-> (out :> Raw("")) @@ tmp, res |-> "err"]

\* patch_worker, keep = true.
patch_worker(tmp, fd, name) ==
    LET in == splitn(name)[1]
        out == splitn(name)[2]
        dec == decompress_gz_dirs(Named(fd), tmp, GzName(in))
    IN  IF ~dec.ok THEN [tmp |-> dec.tmp, res |-> "err"]
        ELSE bspatch(dec.tmp, in, out, name)

PatchWork(i) ==
    /\ stash.pc = "patch"
    /\ i \in DOMAIN stash.w /\ stash.w[i] = "queued"
    /\ LET r == patch_worker(stash.tmp, filesdir, stash.reqs[i])
       IN  stash' = [stash EXCEPT !.w[i] = r.res, !.tmp = r.tmp]
    /\ UNCHANGED filesdir /\ GetFrame

\* core/patchcheck.rs patch(): the outputs of the patches that applied go
\* to the hashcheck pool, keep = true.
PatchDone ==
    /\ stash.pc = "patch" /\ PoolDone
    /\ stash' = IF okfiles = <<>> THEN [stash EXCEPT !.pc = "need", !.reqs = <<>>, !.w = <<>>]
                ELSE StartPool(stash, "patchcheck",
                               [i \in DOMAIN okfiles |-> GzName(splitn(okfiles[i])[2])])
    /\ UNCHANGED filesdir /\ GetFrame

\* hashcheck_worker: decompress within tmp, check the plain file's hash,
\* gzip it if there is no <hash>.gz in tmp, rename that into the files
\* directory, and drop the plain file unless it is kept.
hashcheck_worker(tmp, fd, name, keep) ==
    LET h == trim_gz(name)
        dec == decompress_gz_dirs(tmp, tmp, name)
        src == IF name \in DOMAIN tmp THEN tmp[name] ELSE compress_gz(dec.tmp[h].raw)
        left == DOMAIN dec.tmp \ ({name} \cup IF keep THEN {} ELSE {h})
    IN  IF ~dec.ok \/ Sha256(dec.tmp[h].raw) # h THEN [tmp |-> dec.tmp, fd |-> fd, res |-> "err"]
        ELSE [tmp |-> Restrict(dec.tmp, left), fd |-> (h :> src) @@ fd, res |-> "ok"]

HashcheckWork(i) ==
    /\ stash.pc \in {"patchcheck", "hashcheck"}
    /\ i \in DOMAIN stash.w /\ stash.w[i] = "queued"
    /\ LET r == hashcheck_worker(stash.tmp, filesdir, stash.reqs[i], stash.pc = "patchcheck")
       IN  /\ stash' = [stash EXCEPT !.w[i] = r.res, !.tmp = r.tmp]
           /\ filesdir' = r.fd
    /\ GetFrame

\* hashcheck_worker when there is no <hash>.gz in tmp and compress_gz breaks
\* off after File::create (the disk is full, say): the worker returns the
\* error, the plain file and the cut <hash>.gz stay in tmp.
HashcheckBreak(i) ==
    /\ stash.pc \in {"patchcheck", "hashcheck"}
    /\ i \in DOMAIN stash.w /\ stash.w[i] = "queued"
    /\ LET name == stash.reqs[i]
           h == trim_gz(name)
           dec == decompress_gz_dirs(stash.tmp, stash.tmp, name)
       IN  /\ dec.ok /\ Sha256(dec.tmp[h].raw) = h /\ name \notin DOMAIN stash.tmp
           /\ stash' = [stash EXCEPT !.w[i] = "err", !.tmp = (name :> Truncated) @@ dec.tmp]
    /\ UNCHANGED filesdir /\ GetFrame

\* pc::patch returned; its errors are not errors of the command.
PatchChecked ==
    /\ stash.pc = "patchcheck" /\ PoolDone
    /\ stash' = [stash EXCEPT !.pc = "need", !.reqs = <<>>, !.w = <<>>]
    /\ UNCHANGED filesdir /\ GetFrame

\* Metadata::hashes_no_hash_dir: new's hashes without a <hash>.gz, each once.
hashes_no_hash_dir(new, fd) == {new[p] : p \in DOMAIN new} \ DOMAIN fd

\* cmd/fetch.rs 346-363 and hashfetch::get: fetch_files into tmp.
GetNeed ==
    /\ stash.pc = "need"
    /\ LET nh == hashes_no_hash_dir(stash.new, filesdir)
       IN  stash' = IF nh = {} THEN Exit(stash, "done")
                    ELSE StartPool(stash, "get", SeqOf({GzName(h) : h \in nh}))
    /\ UNCHANGED filesdir /\ GetFrame

\* hashfetch::get: fetch_files(...)? and then the hashcheck pool over the
\* same names, keep = false.
GetFetched ==
    /\ stash.pc = "get" /\ PoolDone
    /\ stash' = IF PoolErrs THEN Exit(stash, "failed")
                ELSE StartPool(stash, "hashcheck", stash.reqs)
    /\ UNCHANGED filesdir /\ GetFrame

\* hashfetch::get: any error of the hashcheck pool is returned.
GetChecked ==
    /\ stash.pc = "hashcheck" /\ PoolDone
    /\ stash' = IF PoolErrs THEN [Exit(stash, "failed") EXCEPT !.reported =
                                     {trim_gz(stash.reqs[i]) : i \in {j \in DOMAIN stash.w : stash.w[j] = "err"}}]
                ELSE Exit(stash, "done")
    /\ UNCHANGED filesdir /\ GetFrame

\* The paths the release changes, all of them unmodified on the system.
GetUpdates == {{"/bin/rsh", "/bin/sh"}, {"/etc/hosts"}}

\* A files directory as earlier runs that ended well leave it: whole
\* objects under their own hash.
InitGet ==
    /\ \E upd \in GetUpdates, prev \in {{}, PrevMeta} :
       \E meta \in {{}, IdxMeta \cup prev}, objs \in {{}, {Sha256(RelNew(p)) : p \in upd}} :
          /\ filesdir = [h \in meta \cup objs |-> compress_gz(Plain(h))]
          /\ stash = [pc |-> "start", prev |-> prev,
                      cur |-> [p \in upd |-> Sha256(RelOld(p))],
                      new |-> [p \in upd |-> Sha256(RelNew(p))],
                      tmp |-> EmptyMap, reqs |-> <<>>, w |-> <<>>, reported |-> {}]
    /\ tree = IdleTree /\ state = [manifest |-> NoManifest]
    /\ last = NoCommand /\ applied = {} /\ pool = PoolIdle

GetOutcomes == {"ok", "bad", "http", "io"}

GetSlots == 1..Cardinality(IdxMeta \cup PrevMeta)

NextGet ==
    \/ GetMeta
    \/ \E i \in GetSlots : ScanCreate(i)
    \/ \E i \in GetSlots, out \in GetOutcomes : ScanFinish(i, out)
    \/ MetaFetched
    \/ MetaCheck
    \/ GetPlan
    \/ PatchFetched
    \/ \E i \in GetSlots : PatchWork(i)
    \/ PatchDone
    \/ \E i \in GetSlots : HashcheckWork(i)
    \/ \E i \in GetSlots : HashcheckBreak(i)
    \/ PatchChecked
    \/ GetNeed
    \/ GetFetched
    \/ GetChecked

SpecGet == InitGet /\ [][NextGet]_vars

(***************************************************************************)
(* One process, from the parse of its command line to its exit, and the    *)
(* process-wide atomics it keeps: EUID (util.rs), UGID_COMPARE             *)
(* (metadata.rs), JOBS_NET and JOBS_CPU (core/pool.rs) and FSYNC           *)
(* (core/install.rs).  `stash` holds the main thread's position, the       *)
(* atomics and a count of the stores made to each; `pool` is the pool the  *)
(* command is running, stepped by the pool's own actions above.            *)
(***************************************************************************)
DefaultJobs == 4

MaxDefaultCpu == 6

None == [some |-> FALSE, v |-> 0]

Some(n) == [some |-> TRUE, v |-> n]

FlagNames == {"EUID", "UGID_COMPARE", "JOBS_NET", "JOBS_CPU", "FSYNC"}

\* The initializers of the statics.
StaticFlags ==
    [EUID |-> 0, UGID_COMPARE |-> TRUE, JOBS_NET |-> DefaultJobs, JOBS_CPU |-> DefaultJobs,
     FSYNC |-> TRUE]

\* An atomic store of v to the flag f.
store(p, f, v) == [p EXCEPT !.flags[f] = v, !.written[f] = @ + 1]

\* core/pool.rs init_jobs: the defaults, the guard against 0, the stores.
init_jobs(p, net, cpu, ncpu) ==
    LET newnet == IF net.some THEN net.v ELSE DefaultJobs
        newcpu == IF cpu.some THEN cpu.v
                  ELSE IF ncpu > MaxDefaultCpu THEN MaxDefaultCpu ELSE ncpu
    IN  IF newnet < 1 \/ newcpu < 1 THEN [p EXCEPT !.pc = "panic"]
        ELSE [store(store(p, "JOBS_NET", newnet), "JOBS_CPU", newcpu) EXCEPT !.pc = "init"]

\* command.rs init(): set_euid(), then init_ugid_cmp() from the cached euid.
init(p) == store(store(p, "EUID", p.env.euid), "UGID_COMPARE", p.env.euid = 0)

RunPool(kind) == [op |-> "pool", kind |-> kind, v |-> FALSE]

Store(f, v) == [op |-> f, kind |-> "", v |-> v]

\* A command that sets its flag only after its first pool has run.
cmd_steps_late(cmd, args) ==
    IF cmd = "install" THEN <<RunPool("cpu"), Store("FSYNC", FALSE)>>
    ELSE <<RunPool("net"), Store("UGID_COMPARE", TRUE), RunPool("cpu")>>

\* What the run() of a command does to the atomics and with pools, in
\* order: install stores FSYNC on --no-sync and scans for schg flags;
\* check-sys stores UGID_COMPARE, fetches metadata and scans; fetch fetches
\* metadata and scans.
cmd_steps(cmd, args) ==
    IF cmd = "install"
    THEN (IF args.no_sync THEN <<Store("FSYNC", FALSE)>> ELSE <<>>) \o <<RunPool("cpu")>>
    ELSE IF cmd = "check-sys"
    THEN <<Store("UGID_COMPARE", TRUE), RunPool("net"), RunPool("cpu")>>
    ELSE <<RunPool("net"), RunPool("cpu")>>

\* Pool::nthreads of the pool kinds: jobs_net() or jobs_cpu().
nthreads(p, kind) == IF kind = "net" THEN p.flags.JOBS_NET ELSE p.flags.JOBS_CPU

ProcFrame == UNCHANGED <<tree, filesdir, state, last, applied>>

\* command/line.rs parse()
Parse ==
    /\ stash.pc = "parse"
    /\ stash' = init_jobs(stash, stash.args.jobs_net, stash.args.jobs_cpu, stash.env.ncpu)
    /\ UNCHANGED pool /\ ProcFrame

\* command.rs run(): init(), then the dispatch to the command.
Dispatch ==
    /\ stash.pc = "init"
    /\ stash' = [init(stash) EXCEPT !.pc = "cmd", !.todo = cmd_steps(stash.cmd, stash.args)]
    /\ UNCHANGED pool /\ ProcFrame

\* The command stores to one of the atomics.
CmdStore ==
    /\ stash.pc = "cmd" /\ stash.todo # <<>> /\ Head(stash.todo).op # "pool"
    /\ stash' = [store(stash, Head(stash.todo).op, Head(stash.todo).v) EXCEPT !.todo = Tail(@)]
    /\ UNCHANGED pool /\ ProcFrame

\* The command calls Pool::run.
CmdPool ==
    /\ stash.pc = "cmd" /\ stash.todo # <<>> /\ Head(stash.todo).op = "pool"
    /\ pool' = NewPool(1, nthreads(stash, Head(stash.todo).kind))
    /\ stash' = [stash EXCEPT !.pc = "pool", !.runs = @ + 1]
    /\ ProcFrame

\* Pool::run returned.
CmdPoolDone ==
    /\ stash.pc = "pool" /\ pool.pc = "done"
    /\ pool' = PoolIdle
    /\ stash' = [stash EXCEPT !.pc = "cmd", !.todo = Tail(@)]
    /\ ProcFrame

CmdExit ==
    /\ stash.pc = "cmd" /\ stash.todo = <<>>
    /\ stash' = [stash EXCEPT !.pc = "exit"]
    /\ UNCHANGED pool /\ ProcFrame

InitProc ==
    /\ \E cmd \in {"fetch", "install", "check-sys"}, no_sync \in BOOLEAN,
          jobs_net \in {None, Some(0), Some(2)}, jobs_cpu \in {None, Some(1)},
          euid \in {0, 1001}, ncpu \in {2, 8} :
          stash = [pc |-> "parse", cmd |-> cmd,
                   args |-> [no_sync |-> no_sync /\ cmd = "install",
                             jobs_net |-> jobs_net, jobs_cpu |-> jobs_cpu],
                   env |-> [euid |-> euid, ncpu |-> ncpu],
                   flags |-> StaticFlags, written |-> [f \in FlagNames |-> 0],
                   todo |-> <<>>, runs |-> 0]
    /\ pool = PoolIdle
    /\ tree = IdleTree /\ filesdir = <<>> /\ state = [manifest |-> NoManifest]
    /\ last = NoCommand /\ applied = {}

NextProc ==
    \/ Parse
    \/ Dispatch
    \/ CmdStore
    \/ CmdPool
    \/ CmdPoolDone
    \/ CmdExit
    \/ stash.pc = "pool" /\ NextPool

SpecProc == InitProc /\ [][NextProc]_vars

(***************************************************************************)
(* Properties of install and resolve-merges.  `last` records the command   *)
(* that led to the current state: its flags, its result, the phases it     *)
(* entered, the operations it performed and the manifest it started from.  *)
(***************************************************************************)
InstallOps == {"dir", "file", "symlink", "link"}

Refusals == {"No install pending", "Unresolved merge conflicts",
             "Internal error -- missing files", "error"}

Removed(m) == change_summary(m).removed

\* The paths of a manifest's deletions that the world phase holds back.
HeldBack(m) == {p \in Removed(m) \ KernelPaths : re_linker_file(p) \/ re_so_file(p)}

SharedLibDeletions(m) ==
    {p \in Removed(m) \ KernelPaths : ~re_linker_file(p) /\ re_so_file(p)}

KernelChanges(m) == (DOMAIN install_lines(m) \cup Removed(m)) \cap KernelPaths

Phased(m) ==
    m.mtype = "upgrade" /\ KernelChanges(m) # {} /\ SharedLibDeletions(m) # {}

OpsOf(l, kinds) == {i \in DOMAIN l.ops : l.ops[i].op \in kinds}

\* A successful install without --dry-run and without --all.
PlainInstall(l) ==
    l.cmd = "install" /\ ~l.dry /\ ~l.all /\ l.ret \notin Refusals

\* C1: for an upgrade manifest with kernel-directory changes and
\* shared-library deletions, a successful plain install from (kernel, world)
\* = (F, F) touches only /boot, saves kernel = TRUE and stops; from (T, F) it
\* touches nothing under /boot, deletes no held-back path, saves world = TRUE
\* and stops; from (T, T) it deletes every removed path and clears the
\* manifest.
C1_PhasedUpgrade ==
    [][(PlainInstall(last') /\ Phased(state.manifest)) =>
        LET m == state.manifest
            l == last'
        IN  /\ (~m.kernel /\ ~m.world) =>
                  /\ l.ret = "Save"
                  /\ state'.manifest = [m EXCEPT !.kernel = TRUE]
                  /\ l.phases = <<"kernel">>
                  /\ \A i \in DOMAIN l.ops : is_kernel_dir(l.ops[i].path)
                  /\ \A p \in DOMAIN install_lines(m) \cap KernelPaths :
                        \E i \in OpsOf(l, InstallOps) : l.ops[i].path = p
            /\ (m.kernel /\ ~m.world) =>
                  /\ l.ret = "Save"
                  /\ state'.manifest = [m EXCEPT !.world = TRUE]
                  /\ l.phases = <<"world">>
                  /\ \A i \in DOMAIN l.ops : ~is_kernel_dir(l.ops[i].path)
                  /\ \A p \in DOMAIN install_lines(m) \ KernelPaths :
                        \E i \in OpsOf(l, InstallOps) : l.ops[i].path = p
                  /\ \A i \in OpsOf(l, {"rm"}) : l.ops[i].path \notin HeldBack(m)
            /\ (m.kernel /\ m.world) =>
                  /\ l.ret = "Done"
                  /\ state'.manifest = NoManifest
                  /\ l.phases = <<"cleanup">>
                  /\ OpsOf(l, InstallOps) = {}
                  /\ \A p \in Removed(m) :
                        \E i \in OpsOf(l, {"rm"}) : l.ops[i].path = p
                  /\ \A p \in SharedLibDeletions(m) : ~exists(tree', p)
    ]_vars

\* The third run of a phased upgrade has happened: it deleted a shared
\* library and cleared the manifest.
C1_Witness ==
    /\ PlainInstall(last) /\ last.ret = "Done"
    /\ last.pre.mtype = "upgrade" /\ last.pre.kernel /\ last.pre.world
    /\ Phased(last.pre)
    /\ state.manifest = NoManifest
    /\ \E i \in OpsOf(last, {"rm"}) :
          /\ last.ops[i].path \in SharedLibDeletions(last.pre)
          /\ last.ops[i].path \in last.ops[i].gone

\* C2: an install of an upgrade manifest with a non-empty conflict map
\* returns "Unresolved merge conflicts" and changes neither the tree, the
\* files directory nor the saved manifest; with an empty conflict map it
\* does not return that; and a resolve-merges run that reports all conflicts
\* resolved has moved every conflict entry to the clean map.
C2_ConflictsRefused ==
    [][LET m == state.manifest
       IN  /\ (last'.cmd = "install" /\ m.mtype = "upgrade") =>
                IF DOMAIN m.merge_conflict # {}
                THEN /\ last'.ret = "Unresolved merge conflicts"
                     /\ tree' = tree /\ filesdir' = filesdir /\ state' = state
                ELSE last'.ret # "Unresolved merge conflicts"
           /\ (last'.cmd = "resolve-merges" /\ last'.ret = "All conflicts resolved") =>
                /\ DOMAIN state'.manifest.merge_conflict = {}
                /\ DOMAIN m.merge_conflict \subseteq DOMAIN state'.manifest.merge_clean
    ]_vars

\* An install went through after resolve-merges accepted an edited file.
C2_Witness ==
    /\ last.cmd = "install" /\ ~last.dry /\ last.ret \in {"Save", "Done"}
    /\ last.pre.mtype = "upgrade"
    /\ \E f \in DOMAIN last.pre.merge_clean :
          last.pre.merge_clean[f].res \in {Sha256("rc.fix"), Sha256("hosts.fix")}

\* The phases a run of manifest m goes through when nothing stops it.
AllPhases(m) ==
    IF m.mtype = "fetch" THEN <<"fetch">>
    ELSE (IF m.kernel THEN <<>> ELSE <<"kernel">>)
            \o (IF m.world THEN <<>> ELSE <<"world">>) \o <<"cleanup">>

\* C3: a dry-run install leaves the tree, the files directory and the saved
\* manifest as they were, and unless it is refused it goes through every
\* remaining phase to the end.
C3_DryRunFrame ==
    [][(last'.cmd = "install" /\ last'.dry) =>
          /\ tree' = tree /\ filesdir' = filesdir /\ state' = state
          /\ last'.ops = <<>>
          /\ last'.ret \notin Refusals =>
                last'.ret = "Done" /\ last'.phases = AllPhases(state.manifest)
    ]_vars

\* A dry run went through the three phases of an upgrade that has changes
\* to install and paths to delete.
C3_Witness ==
    /\ last.cmd = "install" /\ last.dry /\ last.ret = "Done"
    /\ last.phases = <<"kernel", "world", "cleanup">>
    /\ state.manifest.mtype = "upgrade" /\ ~state.manifest.kernel
    /\ DOMAIN install_lines(state.manifest) # {} /\ Removed(state.manifest) # {}

\* C6: for every hash the saved manifest refers to, the files directory
\* holds an object under that hash that decompresses to bytes with that
\* SHA-256.
C6_HashesStored ==
    \A h \in ManifestHashes(state.manifest) :
        h \in DOMAIN filesdir /\ Sha256(decompress(filesdir[h])) = h

\* The lines the last run had to install.
LastLines == IF last.pre.mtype = "none" THEN EmptyMap ELSE install_lines(last.pre)

\* C7: in every install run, a directory operation precedes every file
\* operation below that directory, and every hardlink to a file that the
\* manifest installs is made after that file's operation, in this run or in
\* an earlier run of the same manifest.
C7_DirsAndLinkTargetsFirst ==
    last.cmd = "install" =>
        /\ \A i \in OpsOf(last, {"dir"}), j \in OpsOf(last, {"file"}) :
              IsBelow(last.ops[j].path, last.ops[i].path) => i < j
        /\ \A j \in OpsOf(last, {"link"}) :
              LET target == LastLines[last.ops[j].path].v
              IN  (target \in DOMAIN LastLines /\ LastLines[target].t = "File") =>
                    \/ target \in last.before
                    \/ \E i \in OpsOf(last, {"file"}) :
                          i < j /\ last.ops[i].path = target

Rank(op) ==
    CASE op = "dir" -> 1 [] op = "file" -> 2 [] op = "symlink" -> 3 [] op = "link" -> 4

Class(p) == IF re_linker_file(p) THEN 1 ELSE IF re_so_file(p) THEN 2 ELSE 3

\* C8: among the install operations of one phase, directories come before
\* files, files before symlinks, symlinks before hardlinks; among the file
\* operations, runtime linkers come before shared libraries, and those before
\* everything else.
C8_TypeOrder ==
    last.cmd = "install" =>
        \A i \in OpsOf(last, InstallOps), j \in OpsOf(last, InstallOps) :
            (i < j /\ last.ops[i].ph = last.ops[j].ph) =>
                /\ Rank(last.ops[i].op) <= Rank(last.ops[j].op)
                /\ (last.ops[i].op = "file" /\ last.ops[j].op = "file") =>
                      Class(last.ops[i].path) <= Class(last.ops[j].path)

\* One phase installed a directory, a runtime linker, a shared library,
\* another file, a symlink and a hardlink.
C8_Witness ==
    /\ last.cmd = "install"
    /\ \E d \in OpsOf(last, {"dir"}), f1 \in OpsOf(last, {"file"}),
          f2 \in OpsOf(last, {"file"}), f3 \in OpsOf(last, {"file"}),
          y \in OpsOf(last, {"symlink"}), h \in OpsOf(last, {"link"}) :
          /\ \A k \in {f1, f2, f3, y, h} : last.ops[k].ph = last.ops[d].ph
          /\ Class(last.ops[f1].path) = 1 /\ Class(last.ops[f2].path) = 2
          /\ Class(last.ops[f3].path) = 3
          /\ PathLess(last.ops[f3].path, last.ops[f1].path)

\* C9: within one phase no install operation follows a deletion, the
\* deletions go in strictly descending path order, and a path below a
\* directory is deleted before the directory.
C9_RemovesLastAndReversed ==
    last.cmd = "install" =>
        \A i \in DOMAIN last.ops, j \in DOMAIN last.ops :
            (i < j /\ last.ops[i].ph = last.ops[j].ph /\ last.ops[i].op = "rm") =>
                /\ last.ops[j].op = "rm"
                /\ PathLess(last.ops[j].path, last.ops[i].path)
                /\ ~IsBelow(last.ops[j].path, last.ops[i].path)

\* One phase installed something, then deleted a file and after it the
\* directory that held it.
C9_Witness ==
    /\ last.cmd = "install"
    /\ \E a \in OpsOf(last, InstallOps), i \in OpsOf(last, {"rm"}),
          j \in OpsOf(last, {"rm"}) :
          /\ last.ops[a].ph = last.ops[i].ph /\ last.ops[i].ph = last.ops[j].ph
          /\ a < i /\ i < j
          /\ IsBelow(last.ops[i].path, last.ops[j].path)
          /\ last.ops[j].path \in last.ops[j].gone

\* C10: no operation of the world phase makes a path disappear that the
\* manifest deletes and that is a runtime linker or a shared library.
C10_WorldKeepsHeldBack ==
    last.cmd = "install" =>
        \A i \in DOMAIN last.ops :
            last.ops[i].ph = "world" => last.ops[i].gone \cap HeldBack(last.pre) = {}

\* The conflicted paths whose resolution the last run of resolve-merges
\* accepted: the user left bytes that pass the marker check and took them.
Accepted(l) == {f \in DOMAIN l.pick : l.pick[f] # "s" /\ ~cfmarker(l.pick[f])}

\* C12: after a run of resolve-merges that reaches its save, every accepted
\* path has left the conflict map and is in the clean map with the old, new
\* and cur hashes it had and with res the SHA-256 of the accepted working
\* file, whose gzip is in the files directory; every other conflicted path
\* is still in the conflict map with its record; and no path is ever in both
\* maps.
C12_AcceptMovesRecord ==
    /\ state.manifest.mtype = "upgrade" =>
          DOMAIN state.manifest.merge_clean \cap DOMAIN state.manifest.merge_conflict = {}
    /\ last.cmd = "resolve-merges"
          /\ last.ret \in {"conflicts remain", "All conflicts resolved"} =>
          \A f \in DOMAIN last.pre.merge_conflict :
              LET cd == last.pre.merge_conflict[f]
                  m == state.manifest
                  h == Sha256(last.pick[f])
              IN  IF f \in Accepted(last)
                  THEN /\ f \notin DOMAIN m.merge_conflict
                       /\ f \in DOMAIN m.merge_clean
                       /\ m.merge_clean[f] =
                             [old |-> cd.old, new |-> cd.new, cur |-> cd.cur, res |-> h]
                       /\ h \in DOMAIN filesdir
                       /\ decompress(filesdir[h]) = last.pick[f]
                  ELSE /\ f \in DOMAIN m.merge_conflict
                       /\ m.merge_conflict[f] = cd
                       /\ f \notin DOMAIN m.merge_clean

\* One run accepted a path and skipped another.
C12_Witness ==
    /\ last.cmd = "resolve-merges"
    /\ last.ret = "conflicts remain"
    /\ Accepted(last) # {}
    /\ \E f \in DOMAIN last.pick : last.pick[f] = "s"

\* A diff3 conflict marker line: seven of "<", "|" or ">" at the start of the
\* line, or the line "=======".
Diff3MarkerLine(l) ==
    \/ \E c \in {"<", "|", ">"} : MatchAt(l, 1, Rep(c, 7))
    \/ l = Rep("=", 7)

HasDiff3Marker(bytes) == \E i \in DOMAIN Lines(bytes) : Diff3MarkerLine(Lines(bytes)[i])

\* C13: the res of every record of the clean-merge map is the hash of a
\* content without a diff3 conflict marker line.
C13_CleanHasNoMarkers ==
    state.manifest.mtype = "upgrade" =>
        \A f \in DOMAIN state.manifest.merge_clean :
            ~HasDiff3Marker(Unhash(state.manifest.merge_clean[f].res))

\* The phase in which an upgrade installs path p.
PhaseOf(p) == IF is_kernel_dir(p) THEN "kernel" ELSE "world"

\* C14: when an install of an upgrade manifest goes through the phase of a
\* path of the clean-merge map, it performs a file operation on that path and
\* leaves there the content whose hash is the record's res, which is not the
\* content of new's entry.
C14_InstallAppliesMerged ==
    (last.cmd = "install" /\ ~last.dry /\ last.ret \notin Refusals
        /\ last.pre.mtype = "upgrade") =>
        \A f \in DOMAIN last.pre.merge_clean :
            (\E n \in DOMAIN last.phases : last.phases[n] = PhaseOf(f)) =>
                /\ \E i \in OpsOf(last, {"file"}) :
                      last.ops[i].path = f /\ last.ops[i].ok
                /\ tree[f].k = "file"
                /\ Sha256(tree[f].c) = last.pre.merge_clean[f].res
                /\ Sha256(tree[f].c) # last.pre.new.files[f]

\* The world phase installed the merger's result for /etc/rc.conf and a
\* resolution accepted by resolve-merges for /etc/hosts.
C14_Witness ==
    /\ last.cmd = "install" /\ ~last.dry /\ last.ret = "Save"
    /\ last.phases = <<"world">>
    /\ DOMAIN last.pre.merge_clean = {"/etc/rc.conf", "/etc/hosts"}
    /\ tree["/etc/rc.conf"].c = "rc.res"
    /\ tree["/etc/hosts"].c = "hosts.fix"

\* The content hashes that cur or new of a manifest refer to.
ReferencedHashes(m) ==
    {m.cur.files[p] : p \in DOMAIN m.cur.files} \cup {m.new.files[p] : p \in DOMAIN m.new.files}

\* C15: a run of install on a pending manifest changes the tree or performs
\* an operation only if every hash that cur or new refers to has its object
\* in the files directory; when one is missing the run is refused, and the
\* tree, the files directory and the saved manifest stay as they were.
C15_MissingFilesAbort ==
    [][(last'.cmd = "install" /\ state.manifest.mtype # "none") =>
          IF ReferencedHashes(state.manifest) \subseteq DOMAIN filesdir
          THEN last'.ret # "Internal error -- missing files"
          ELSE /\ last'.ret \in {"Unresolved merge conflicts",
                                  "Internal error -- missing files"}
               /\ last'.ops = <<>> /\ last'.phases = <<>>
               /\ tree' = tree /\ filesdir' = filesdir /\ state' = state
    ]_vars

\* The second run of a phased upgrade was refused for a missing object, and
\* the manifest still says that only the kernel is installed.
C15_Witness ==
    /\ last.cmd = "install" /\ ~last.dry
    /\ last.ret = "Internal error -- missing files"
    /\ state.manifest.mtype = "upgrade"
    /\ state.manifest.kernel /\ ~state.manifest.world
    /\ ReferencedHashes(state.manifest) \ DOMAIN filesdir # {}

\* C11: a step that changes a saved pending manifest is a run of install
\* that only advances the phase flags, a run of install that completes the
\* last phase and clears it, a run of resolve-merges that only moves records
\* from the conflict map to the clean map, or `clean --pending` clearing it.
C11_ManifestLifecycle ==
    [][(state.manifest.mtype # "none" /\ state'.manifest # state.manifest) =>
          LET m == state.manifest
              n == state'.manifest
          IN  \/ /\ last'.cmd = "install"
                 /\ n.mtype = "upgrade"
                 /\ n = [m EXCEPT !.kernel = n.kernel, !.world = n.world]
                 /\ (m.kernel => n.kernel) /\ (m.world => n.world)
              \/ /\ last'.cmd = "install"
                 /\ last'.ret = "Done"
                 /\ n = NoManifest
              \/ /\ last'.cmd = "resolve-merges"
                 /\ n.mtype = "upgrade"
                 /\ n = [m EXCEPT !.merge_clean = n.merge_clean,
                                   !.merge_conflict = n.merge_conflict]
                 /\ DOMAIN n.merge_conflict \subseteq DOMAIN m.merge_conflict
                 /\ \A f \in DOMAIN n.merge_conflict :
                        n.merge_conflict[f] = m.merge_conflict[f]
                 /\ DOMAIN n.merge_clean =
                        DOMAIN m.merge_clean
                            \cup (DOMAIN m.merge_conflict \ DOMAIN n.merge_conflict)
                 /\ \A f \in DOMAIN m.merge_clean : n.merge_clean[f] = m.merge_clean[f]
              \/ /\ last'.cmd = "clean" /\ last'.pending
                 /\ n = NoManifest
    ]_vars

\* The capacity a bounded channel sized for the pool's workers would have;
\* the channels of Pool::run are channel::unbounded() and have none.
Capacity == MaxThreads

\* C19: the request channel and the result channel never hold more than a
\* fixed number of items, whatever the number of requests submitted.
C19_BoundedChannels ==
    pool.pc # "idle" =>
        /\ Len(pool.req) <= Capacity
        /\ Len(pool.res) <= Capacity

\* An object of the files directory that is not what its name says: not a
\* whole gzip, or the gzip of bytes with another hash.
BadBlob(h) == ~is_gz(filesdir[h]) \/ Sha256(decompress(filesdir[h])) # h

\* C16: once the command has ended, no downloaded blob that does not hash
\* to its expected value is left in the files directory or in the
\* temporary directory.
C16_BadBlobNeverLeft ==
    stash.pc \in {"done", "failed"} =>
        /\ \A h \in DOMAIN filesdir : ~BadBlob(h)
        /\ DOMAIN stash.tmp = {}

\* C17: at no instant does the files directory show, under an object's
\* final name, a file that is not written to its end.
C17_NoPartialObject ==
    stash.pc # "idle" => \A h \in DOMAIN filesdir : filesdir[h] # Truncated

\* The path a request of the running pool writes to: the name it fetches,
\* the output of the patch it applies, or the object it checks.
OutPath(i) ==
    IF stash.pc = "patch" THEN splitn(stash.reqs[i])[2] ELSE stash.reqs[i]

\* C18: within one pool run no two requests write to the same output path,
\* so no two workers have the same file open for writing.
C18_DistinctOutputs ==
    stash.pc # "idle" =>
        \A i, j \in DOMAIN stash.reqs : i # j => OutPath(i) # OutPath(j)

\* A pool is running: Pool::run has been entered and has not returned.
PoolRunning == stash.pc = "pool"

\* C20: every store to one of the process-wide flags is made before the
\* process has spawned any pool worker, and so never while a pool runs.
C20_FlagsWrittenBeforePools ==
    [][stash.written' # stash.written => ~PoolRunning /\ stash.runs = 0]_vars

\* A command has stored to its flag, and a pool worker is now at work with
\* the thread count that the parse stored.
C20_Witness ==
    /\ PoolRunning /\ \E w \in Workers : pool.wpc[w] = "work"
    /\ stash.written["FSYNC"] = 1 \/ stash.written["UGID_COMPARE"] = 2
    /\ stash.written["JOBS_CPU"] = 1 /\ pool.nthr = MaxDefaultCpu

(***************************************************************************)
(* A failed install and its re-run.  An install without --dry-run meets an *)
(* I/O error at one of its operations, which ends it through the `?` that  *)
(* follows every call; the operator then gives the same command again, and *)
(* that run meets no error.  stash.want keeps, for comparison, the tree    *)
(* that the first run would have left had it met no error.                 *)
(***************************************************************************)
Retrying(all, want) == [pc |-> "retry", all |-> all, want |-> want]

\* The install r, which met its I/O error, where ref is the same run without.
Failed(r, ref, all) ==
    /\ r.ret = "error"
    /\ Ran(r, FALSE, all)!1
    /\ Ran(r, FALSE, all)!2
    /\ Ran(r, FALSE, all)!3
    /\ Ran(r, FALSE, all)!4
    /\ stash' = Retrying(all, ref.t)
    /\ UNCHANGED <<filesdir, pool>>

\* The error strikes at any one of the operations the run would perform.
Fails(ref, all) ==
    \E io \in DOMAIN ref.x.ops : Failed(run(tree, filesdir, state, FALSE, all, io), ref, all)

InstallFails(all) ==
    /\ stash.pc = "idle"
    /\ Fails(run(tree, filesdir, state, FALSE, all, 0), all)

Reran(r) ==
    /\ Ran(r, FALSE, stash.all)!1
    /\ Ran(r, FALSE, stash.all)!2
    /\ Ran(r, FALSE, stash.all)!3
    /\ Ran(r, FALSE, stash.all)!4
    /\ stash' = [stash EXCEPT !.pc = "rerun"]
    /\ UNCHANGED <<filesdir, pool>>

\* The same command again, after the failure.
Rerun ==
    /\ stash.pc = "retry"
    /\ Reran(run(tree, filesdir, state, FALSE, stash.all, 0))

NextRetry ==
    \/ \E all \in BOOLEAN : stash.pc = "idle" /\ Install(FALSE, all)
    \/ \E all \in BOOLEAN : InstallFails(all)
    \/ Rerun

SpecRetry == Init /\ [][NextRetry]_vars

(***************************************************************************)
(* Installs into trees whose kernel backup directories are in use.  Each   *)
(* of /boot/kernel.old and /boot/kernel.old1 is free, an earlier backup    *)
(* (a directory with the sentinel file), a directory of somebody else's    *)
(* (no sentinel file), or a regular file.                                  *)
(***************************************************************************)
SlotKinds == {"free", "ours", "foreign", "file"}

WithSlot(t, kd, kind, ino) ==
    [p \in FsPaths |->
        IF p = kd
        THEN (IF kind = "free" THEN NoNode
              ELSE IF kind = "file" THEN FileNode("kept", ino) ELSE DirNode)
        ELSE IF p = fufile(kd) /\ kind = "ours" THEN FileNode("", ino)
        ELSE IF p = Join(kd, <<"k", "e", "r", "n", "e", "l">>) /\ kind \in {"ours", "foreign"}
        THEN FileNode("kernel.0", ino + 1)
        ELSE t[p]]

InitBackup ==
    \E sc \in CmdScenarios, a \in SlotKinds, b \in SlotKinds :
        /\ Pending(sc)
        /\ a \in {"free", "ours"} \/ b \in {"free", "ours"}
        /\ tree = WithSlot(WithSlot(BaseTree(sc), BackupSlots[1], a, 20), BackupSlots[2], b, 30)
        /\ state = [manifest |-> ScenarioManifest(sc)]
        /\ filesdir = [h \in ManifestHashes(ScenarioManifest(sc)) |-> compress_gz(Unhash(h))]
        /\ last = NoCommand
        /\ applied = {}
        /\ pool = PoolIdle
        /\ stash = StashIdle

NextBackup == \E dry \in BOOLEAN, all \in BOOLEAN : Install(dry, all)

SpecBackup == InitBackup /\ [][NextBackup]_vars

(***************************************************************************)
(* resolve-merges runs in which the editor, or a read of the working file, *)
(* can return an error at any of the conflicted paths.                     *)
(***************************************************************************)
InitResolve == \E sc \in Scenarios : sc.etc > 0 /\ InitOf(sc)

NextResolve ==
    \E pick \in [ConflictKeys -> {"s", "io"} \cup Edits("/etc/rc.conf") \cup Edits("/etc/hosts")] :
        /\ \A f \in ConflictKeys : pick[f] \in {"s", "io"} \/ pick[f] \in Edits(f)
        /\ ResolveMerges(pick)

SpecResolve == InitResolve /\ [][NextResolve]_vars

(***************************************************************************)
(* Metadata sets as values (metadata/metadata.rs).  The functions on them  *)
(* are applied to every pair of sets over two paths, each path being       *)
(* absent from a set or held under one variant.  stash holds the inputs    *)
(* and then the result.                                                    *)
(***************************************************************************)
MetaPaths == {"/bin/rsh", "/bin/sh"}

\* What a set can hold for a path: nothing, a file with one of two hashes,
\* a directory, a symlink, a hardlink to the other path, a dash line.
MetaKinds == {"none", "f1", "f2", "dir", "sym", "hl", "dash"}

OtherPath(p) == CHOOSE q \in MetaPaths : q # p

MetaOf(ch) ==
    MkMetadata([p \in {q \in MetaPaths : ch[q] \in {"f1", "f2"}} |->
                    IF ch[p] = "f1" THEN "sha256:sh.1" ELSE "sha256:sh.2"],
               [p \in {q \in MetaPaths : ch[q] = "dir"} |-> ""],
               [p \in {q \in MetaPaths : ch[q] = "sym"} |-> "sh"],
               [p \in {q \in MetaPaths : ch[q] = "hl"} |-> OtherPath(p)],
               {q \in MetaPaths : ch[q] = "dash"})

Metadatas == {MetaOf(ch) : ch \in [MetaPaths -> MetaKinds]}

\* Metadata::allpaths_hashset
allpaths_hashset(m) ==
    DOMAIN m.dirs \cup DOMAIN m.files \cup DOMAIN m.symlinks \cup DOMAIN m.hardlinks
        \cup m.dashes

\* HashMap::retain with `Some(a) != other.get(k)`: the entries that other
\* does not hold as they are.
retain_differing(mine, others) ==
    Restrict(mine, {k \in DOMAIN mine : ~(k \in DOMAIN others /\ others[k] = mine[k])})

\* A faulty filter that drops every path the other set knows.
remove_known_paths(a, b, spechl) ==
    MkMetadata(Restrict(a.files, DOMAIN a.files \ allpaths_hashset(b)),
               Restrict(a.dirs, DOMAIN a.dirs \ allpaths_hashset(b)),
               Restrict(a.symlinks, DOMAIN a.symlinks \ allpaths_hashset(b)),
               Restrict(a.hardlinks, DOMAIN a.hardlinks \ allpaths_hashset(b)),
               a.dashes \ allpaths_hashset(b))

\* A faulty filter that treats hardlinks like every other entry.
retain_all_differing(a, b, spechl) ==
    MkMetadata(retain_differing(a.files, b.files),
               retain_differing(a.dirs, b.dirs),
               retain_differing(a.symlinks, b.symlinks),
               retain_differing(a.hardlinks, b.hardlinks),
               a.dashes \ b.dashes)

\* Metadata::remove_matching_inner: the files are filtered first, and the
\* hardlinks look at the files that are left.
remove_matching_inner(a, b, spechl) ==
    LET files == retain_differing(a.files, b.files)
    IN  MkMetadata(files,
                   retain_differing(a.dirs, b.dirs),
                   retain_differing(a.symlinks, b.symlinks),
                   Restrict(a.hardlinks,
                            {k \in DOMAIN a.hardlinks :
                                \/ spechl /\ a.hardlinks[k] \in DOMAIN files
                                \/ ~(k \in DOMAIN b.hardlinks /\ b.hardlinks[k] = a.hardlinks[k])}),
                   a.dashes \ b.dashes)

MetaFrame == UNCHANGED <<tree, filesdir, state, last, applied, pool>>

\* a.remove_matching(b), and the check-sys variant.
RemoveMatching(spechl) ==
    /\ stash.pc = "match"
    /\ stash' = [pc |-> "matched", a |-> stash.a, b |-> stash.b, spechl |-> spechl,
                 r |-> remove_matching_inner(stash.a, stash.b, spechl)]
    /\ MetaFrame

\* Nothing else of the system takes part.
MetaIdle ==
    /\ tree = IdleTree
    /\ filesdir = EmptyMap
    /\ state = [manifest |-> NoManifest]
    /\ last = NoCommand /\ applied = {} /\ pool = PoolIdle

InitMatch ==
    /\ MetaIdle
    /\ \E a \in Metadatas, b \in Metadatas : stash = [pc |-> "match", a |-> a, b |-> b]

NextMatch == \E spechl \in BOOLEAN : RemoveMatching(spechl)

SpecMatch == InitMatch /\ [][NextMatch]_vars

(***************************************************************************)
(* The UpdateIfUnmodified filter (core/filter.rs) as fetch and upgrade     *)
(* call it.  old and new are parsed from the indexes, cur is the scan of   *)
(* their paths: every path of old or new is in cur, under the variant      *)
(* found or as a dash line.  A hardlink of a set points to a file of it.   *)
(***************************************************************************)
Regexes == {"^/bin/", "^/bin/sh$"}

\* Regex::is_match over the paths of the metadata sets.
is_match(r, p) ==
    CASE r = "^/bin/" -> p \in {"/bin/rsh", "/bin/sh"}
      [] r = "^/bin/sh$" -> p = "/bin/sh"
      [] r = "^/etc/" -> p \in {"/etc/hosts", "/etc/passwd"}
      [] r = "^/etc/hosts$" -> p = "/etc/hosts"

\* Metadata::filter_paths_regexps
filter_paths_regexps(m, re) ==
    LET matches == {p \in allpaths_hashset(m) : \E i \in DOMAIN re : is_match(re[i], p)}
    IN  MkMetadata(Restrict(m.files, matches), Restrict(m.dirs, matches),
                   Restrict(m.symlinks, matches), Restrict(m.hardlinks, matches),
                   m.dashes \cap matches)

\* Option<&HashSet> and Option<&Metadata>
Absent == [some |-> FALSE]

Given(v) == [some |-> TRUE, v |-> v]

\* filter.rs modified_present(): the files of cur under the regexes whose
\* hash is neither old's nor new's nor cv_old's.
mp_files(old, new, cur, uium, ignore, cv_old) ==
    {p \in DOMAIN filter_paths_regexps(cur, uium).files :
        /\ ~(ignore.some /\ p \in ignore.v)
        /\ ~(p \in DOMAIN old.files /\ old.files[p] = cur.files[p])
        /\ ~(p \in DOMAIN new.files /\ new.files[p] = cur.files[p])
        /\ ~(cv_old.some /\ p \in DOMAIN cv_old.v.files /\ cv_old.v.files[p] = cur.files[p])}

\* A faulty filter that takes no file for modified.
modified_never(old, new, cur, uium, ignore, cv_old) ==
    [files |-> {}, hlinks |-> {}, dashes |-> {}]

\* filter.rs modified_present()
modified_present(old, new, cur, uium, ignore, cv_old) ==
    [files |-> mp_files(old, new, cur, uium, ignore, cv_old),
     hlinks |-> {p \in DOMAIN filter_paths_regexps(cur, uium).hardlinks :
                    /\ ~(ignore.some /\ p \in ignore.v)
                    /\ p \notin DOMAIN old.hardlinks
                    /\ p \notin DOMAIN new.hardlinks
                    /\ cur.hardlinks[p] \in mp_files(old, new, cur, uium, ignore, cv_old)
                    /\ ~(cv_old.some /\ p \in DOMAIN cv_old.v.hardlinks)},
     dashes |-> {p \in cur.dashes :
                    /\ p \notin old.dashes
                    /\ ~(cv_old.some /\ p \in cv_old.v.dashes)
                    /\ p \in allpaths_hashset_nodash(old)}]

\* filter.rs apply_modified_present(): what is left of old, new and cur.
apply_modified_present(mpret, old, new, cur) ==
    LET drop(f, S) == Restrict(f, DOMAIN f \ S)
    IN  [old |-> [old EXCEPT !.files = drop(@, mpret.files),
                             !.hardlinks = drop(@, mpret.hlinks)],
         new |-> [new EXCEPT !.files = drop(@, mpret.files \cup mpret.dashes),
                             !.dirs = drop(@, mpret.dashes),
                             !.hardlinks = drop(@, mpret.hlinks \cup mpret.dashes),
                             !.symlinks = drop(@, mpret.dashes)],
         cur |-> [cur EXCEPT !.files = drop(@, mpret.files),
                             !.hardlinks = drop(@, mpret.hlinks)],
         ret |-> mpret.files \cup mpret.hlinks]

\* cmd/fetch.rs and cmd/upgrade.rs: the filter is applied, then the entries
\* that cur and new share are dropped from both, and what is left goes to
\* the manifest.
Filtered(in, f) ==
    [pc |-> "filtered", in |-> in, mp |-> f.ret, old |-> f.old, new |-> f.new, cur |-> f.cur,
     mnew |-> remove_matching_inner(f.new, f.cur, TRUE),
     mcur |-> remove_matching_inner(f.cur, f.new, TRUE)]

ModifiedPresent ==
    /\ stash.pc = "filter"
    /\ stash' = Filtered(stash.in,
                    apply_modified_present(
                        modified_present(stash.in.old, stash.in.new, stash.in.cur,
                                         stash.in.uium, stash.in.ignore, stash.in.cv_old),
                        stash.in.old, stash.in.new, stash.in.cur))
    /\ MetaFrame

WellLinked(m) == \A k \in DOMAIN m.hardlinks : m.hardlinks[k] \in DOMAIN m.files

\* The indexes the filter runs hold /bin/rsh as a file, as a hardlink or
\* not at all.
Indexes ==
    {m \in Metadatas : WellLinked(m) /\ "/bin/rsh" \notin DOMAIN m.dirs \cup DOMAIN m.symlinks}

\* The call of fetch, and the calls of upgrade with and without a file to
\* merge and with the index of the release before old.
FilterCalls ==
    {[ignore |-> Absent, cv_old |-> Absent]}
        \cup [ignore : {Given({}), Given({"/bin/sh"})},
              cv_old : {Given(MetaOf([p \in MetaPaths |-> IF p = "/bin/sh" THEN "f2" ELSE "none"]))}]

InitFilter ==
    /\ MetaIdle
    /\ \E old \in Indexes, new \in Indexes, cur \in Metadatas,
          uium \in {<<>>, <<"^/bin/sh$">>, <<"^/bin/">>}, call \in FilterCalls :
            /\ WellLinked(cur)
            /\ allpaths_hashset(cur) = allpaths_hashset(old) \cup allpaths_hashset(new)
            /\ stash = [pc |-> "filter",
                        in |-> [old |-> old, new |-> new, cur |-> cur, uium |-> uium,
                                ignore |-> call.ignore, cv_old |-> call.cv_old]]

NextFilter == ModifiedPresent

SpecFilter == InitFilter /\ [][NextFilter]_vars

(***************************************************************************)
(* The scanner (core/scan.rs scan_inner over core/pool/scan.rs).  The file *)
(* system is fixed during a scan: every scanned path is missing or is a    *)
(* file, a symlink or a directory with an inode and a link count.  The     *)
(* pool's workers hand their results to work_result in any order.          *)
(***************************************************************************)
ScannedPaths == {"/bin/rsh", "/bin/sh", "/etc/hosts"}

\* What lstat finds at a path: nothing, one of two files, a symlink or a
\* directory.  Two paths with the same file are hard links of it.
StatKinds == {"none", "file1", "file2", "sym", "dir"}

\* lstat of path p in the file system fs; extra says whether the files
\* have one more link outside the scanned paths.
lstat(fs, extra, p) ==
    LET same == Cardinality({q \in ScannedPaths : fs[q] = fs[p]})
        own == 2 + CHOOSE i \in DOMAIN SortedFsPaths : SortedFsPaths[i] = p
    IN  CASE fs[p] = "file1" -> [k |-> "File", ino |-> 1, nlink |-> same + extra]
          [] fs[p] = "file2" -> [k |-> "File", ino |-> 2, nlink |-> same + extra]
          [] fs[p] = "sym" -> [k |-> "SymLink", ino |-> own, nlink |-> 1]
          [] fs[p] = "dir" -> [k |-> "Dir", ino |-> own, nlink |-> 2]
          [] OTHER -> [k |-> "none", ino |-> 0, nlink |-> 0]

\* core/pool/scan.rs scan_worker(): the Res of a path that exists.
scan_worker(fs, extra, p) ==
    [path |-> p, ftype |-> lstat(fs, extra, p).k,
     v |-> IF fs[p] = "file1" THEN "sha256:sh.1"
           ELSE IF fs[p] = "file2" THEN "sha256:sh.2"
           ELSE IF fs[p] = "sym" THEN "sh" ELSE "",
     ino |-> lstat(fs, extra, p).ino, nlink |-> lstat(fs, extra, p).nlink]

\* core/pool/scan.rs work_result(): one result arrives.
ScanResult(p) ==
    /\ stash.pc = "scan" /\ p \in stash.todo
    /\ stash' = IF stash.fs[p] = "none"
                THEN [stash EXCEPT !.todo = @ \ {p}, !.missings = Append(@, p)]
                ELSE [stash EXCEPT !.todo = @ \ {p},
                                   !.oks = Append(@, scan_worker(stash.fs, stash.extra, p))]
    /\ MetaFrame

\* A faulty scan that takes the results in the order of arrival.
unsorted(res) == res

\* oks.sort_unstable_by(|a, b| a.path.cmp(&b.path)), the paths being distinct.
sort_by_path(res) ==
    LET paths == sorted({res[i].path : i \in DOMAIN res})
    IN  [i \in DOMAIN res |-> res[CHOOSE j \in DOMAIN res : res[j].path = paths[i]]]

\* scan_inner(): the loop over the sorted results; hlinks maps the inodes
\* seen with more than one link to the first path that had them.
RECURSIVE scan_loop(_, _, _)
scan_loop(res, hlinks, md) ==
    IF res = <<>> THEN md
    ELSE LET f == Head(res)
             seen == f.nlink > 1 /\ f.ino \in DOMAIN hlinks
             hl2 == IF f.nlink > 1 /\ ~seen THEN (f.ino :> f.path) @@ hlinks ELSE hlinks
         IN  scan_loop(Tail(res), hl2,
                 IF seen THEN [md EXCEPT !.hardlinks = (f.path :> hlinks[f.ino]) @@ @]
                 ELSE IF f.ftype = "Dir" THEN [md EXCEPT !.dirs = (f.path :> f.v) @@ @]
                 ELSE IF f.ftype = "File" THEN [md EXCEPT !.files = (f.path :> f.v) @@ @]
                 ELSE [md EXCEPT !.symlinks = (f.path :> f.v) @@ @])

\* core/scan.rs scan_inner(), once the pool has returned.
scan_inner(res, missings) ==
    scan_loop(sort_by_path(res), [i \in {} |-> ""],
              MkMetadata(EmptyMap, EmptyMap, EmptyMap, EmptyMap,
                         {missings[i] : i \in DOMAIN missings}))

ScanReturn ==
    /\ stash.pc = "scan" /\ stash.todo = {}
    /\ stash' = [pc |-> "scanned", fs |-> stash.fs, extra |-> stash.extra,
                 oks |-> stash.oks, md |-> scan_inner(stash.oks, stash.missings)]
    /\ MetaFrame

InitScan ==
    /\ MetaIdle
    /\ \E fs \in [ScannedPaths -> StatKinds], extra \in {0, 1} :
          stash = [pc |-> "scan", fs |-> fs, extra |-> extra, todo |-> ScannedPaths,
                   oks |-> <<>>, missings |-> <<>>]

NextScan ==
    \/ \E p \in ScannedPaths : ScanResult(p)
    \/ ScanReturn

SpecScan == InitScan /\ [][NextScan]_vars

(***************************************************************************)
(* Finding a server (server/lookup.rs, server/server.rs find_inner).  The  *)
(* SRV lookup answers with up to three records in any order; they are      *)
(* grouped by priority, every group is shuffled by weight with numbers     *)
(* from the random generator, and the servers are tried in that order      *)
(* until one answers.                                                      *)
(***************************************************************************)
SrvHosts == <<"jane", "joe", "barbara">>

SrvRecords == [pri : {0, 1}, weight : {0, 1, 2}, host : {SrvHosts[i] : i \in DOMAIN SrvHosts}]

\* The derived Ord of Server: priority, then weight, then host.
SrvLess(a, b) ==
    \/ a.pri < b.pri
    \/ a.pri = b.pri /\ a.weight < b.weight
    \/ /\ a.pri = b.pri /\ a.weight = b.weight
       /\ (CHOOSE i \in DOMAIN SrvHosts : SrvHosts[i] = a.host)
            < (CHOOSE i \in DOMAIN SrvHosts : SrvHosts[i] = b.host)

\* A faulty lookup that leaves the records in the order of the answer.
srvs_as_answered(srvs) == srvs

\* srvs.sort()
sort_srvs(srvs) ==
    [i \in DOMAIN srvs |->
        CHOOSE x \in {srvs[j] : j \in DOMAIN srvs} :
            Cardinality({y \in {srvs[j] : j \in DOMAIN srvs} : SrvLess(y, x)}) = i - 1]

\* The loop of srvs_by_pri(): ret, onepri and lastpri as it goes.
RECURSIVE by_pri_loop(_, _, _, _)
by_pri_loop(srvs, ret, onepri, lastpri) ==
    IF srvs = <<>> THEN (IF Len(onepri) > 0 THEN Append(ret, onepri) ELSE ret)
    ELSE IF Head(srvs).pri # lastpri
    THEN by_pri_loop(Tail(srvs), IF Len(onepri) > 0 THEN Append(ret, onepri) ELSE ret,
                     <<Head(srvs)>>, Head(srvs).pri)
    ELSE by_pri_loop(Tail(srvs), ret, Append(onepri, Head(srvs)), lastpri)

\* lookup.rs srvs_by_pri()
srvs_by_pri(srvs) == by_pri_loop(sort_srvs(srvs), <<>>, <<>>, 0)

RECURSIVE flatten(_)
flatten(groups) == IF groups = <<>> THEN <<>> ELSE Head(groups) \o flatten(Tail(groups))

\* The cumulative weight before entry i of srvs.
RECURSIVE cw(_, _)
cw(srvs, i) == IF i = 1 THEN 0 ELSE cw(srvs, i - 1) + srvs[i - 1].weight

RemoveAt(q, i) == SubSeq(q, 1, i - 1) \o SubSeq(q, i + 1, Len(q))

SrvFrame == UNCHANGED <<tree, filesdir, state, last, applied, pool>>

\* lookup.rs servers(): the answer is grouped by priority.
Lookup ==
    /\ stash.pc = "lookup"
    /\ stash' = [stash EXCEPT !.pc = "shuffle", !.groups = srvs_by_pri(stash.answer), !.g = 1,
                              !.rest = srvs_by_pri(stash.answer)[1]]
    /\ SrvFrame

\* shuffle_weights_be(): group g is shuffled, the next one is taken up, and
\* after the last one the groups are flattened into the list to try.
Shuffled(st, ret) ==
    LET groups == [st.groups EXCEPT ![st.g] = ret]
    IN  IF st.g = Len(groups)
        THEN [st EXCEPT !.pc = "try", !.groups = groups, !.list = flatten(groups),
                        !.rest = <<>>, !.ret = <<>>]
        ELSE [st EXCEPT !.groups = groups, !.g = @ + 1, !.rest = groups[st.g + 1], !.ret = <<>>]

\* One round of the loop of shuffle_weight() with the random number rn, or
\* the whole call when the group has one entry: gen_range panics over an
\* empty range, and a round whose number selects no entry changes nothing.
ShuffleRound(rn) ==
    /\ stash.pc = "shuffle"
    /\ LET rest == stash.rest
           sum == cw(rest, Len(rest) + 1)
           hit == {i \in DOMAIN rest : cw(rest, i) < rn}
           pick == CHOOSE i \in hit : \A j \in hit : j <= i
       IN  IF Len(stash.groups[stash.g]) = 1
           THEN rn = 0 /\ stash' = Shuffled(stash, rest)
           ELSE IF sum = 0 THEN rn = 0 /\ stash' = [stash EXCEPT !.pc = "panic"]
           ELSE /\ rn < sum
                /\ stash' = IF hit = {} THEN stash
                            ELSE IF Len(rest) = 1 THEN Shuffled(stash, Append(stash.ret, rest[pick]))
                            ELSE [stash EXCEPT !.rest = RemoveAt(rest, pick),
                                               !.ret = Append(@, rest[pick])]
    /\ SrvFrame

\* find_inner(): the next server of the list is tried; ok says whether it
\* returns its key tag.
Try(ok) ==
    /\ stash.pc = "try"
    /\ stash' = [stash EXCEPT !.tried = Append(@, [srv |-> Head(stash.list), ok |-> ok]),
                              !.list = Tail(@),
                              !.pc = IF ok THEN "found"
                                     ELSE IF Len(stash.list) = 1 THEN "giveup" ELSE "try"]
    /\ SrvFrame

InitFind ==
    /\ MetaIdle
    /\ \E n \in DOMAIN SrvHosts : \E answer \in [1..n -> SrvRecords] :
          /\ \A i, j \in 1..n : i # j => answer[i].host # answer[j].host
          /\ stash = [pc |-> "lookup", answer |-> answer, groups |-> <<>>, g |-> 0,
                      rest |-> <<>>, ret |-> <<>>, list |-> <<>>, tried |-> <<>>]

NextFind ==
    \/ Lookup
    \/ \E rn \in 0..5 : ShuffleRound(rn)
    \/ \E ok \in BOOLEAN : Try(ok)

SpecFind == InitFind /\ [][NextFind]_vars

\* The random numbers are fair: a round that can take an entry out is not
\* put off forever, and the servers of the list are tried.
SpecFindFair == SpecFind /\ WF_vars(NextFind)

(***************************************************************************)
(* Parsing an index (metadata/parse.rs) and flattening its components      *)
(* (metadata/group.rs).  An index line names a component, a path and a     *)
(* type; a line of type f with an absolute path in its last field is a     *)
(* hardlink.  The parser takes any sequence of well-formed lines.          *)
(***************************************************************************)
MaxLines == 2

IndexComponents == {"world/base", "kernel/generic"}

IndexLines ==
    [comp : IndexComponents, path : MetaPaths, rtype : {"f", "d", "L", "-"}, link : {"", "/bin/sh"}]

\* ParseLine::from_str: the variant and the value of a line.
parse_line(l) ==
    IF l.rtype = "f"
    THEN (IF l.link # "" THEN [t |-> "HardLink", path |-> l.path, v |-> l.link]
          ELSE [t |-> "File", path |-> l.path, v |-> "sha256:sh.1"])
    ELSE IF l.rtype = "d" THEN [t |-> "Dir", path |-> l.path, v |-> ""]
    ELSE IF l.rtype = "L" THEN [t |-> "SymLink", path |-> l.path, v |-> l.link]
    ELSE [t |-> "Dash", path |-> l.path, v |-> ""]

\* The match of From<Vec<ParseLine>>: the insert into the map of the variant.
insert_line(md, ml) ==
    CASE ml.t = "File" -> [md EXCEPT !.files = (ml.path :> ml.v) @@ @]
      [] ml.t = "Dir" -> [md EXCEPT !.dirs = (ml.path :> ml.v) @@ @]
      [] ml.t = "HardLink" -> [md EXCEPT !.hardlinks = (ml.path :> ml.v) @@ @]
      [] ml.t = "SymLink" -> [md EXCEPT !.symlinks = (ml.path :> ml.v) @@ @]
      [] OTHER -> [md EXCEPT !.dashes = @ \cup {ml.path}]

EmptyMetadata == MkMetadata(EmptyMap, EmptyMap, EmptyMap, EmptyMap, {})

\* impl From<Vec<ParseLine>> for MetadataGroup
RECURSIVE group_lines(_, _)
group_lines(lines, mdg) ==
    IF lines = <<>> THEN mdg
    ELSE LET l == Head(lines)
             md == IF l.comp \in DOMAIN mdg THEN mdg[l.comp] ELSE EmptyMetadata
         IN  group_lines(Tail(lines), (l.comp :> insert_line(md, parse_line(l))) @@ mdg)

\* Metadata::extend: the entries of other win.
extend(md, other) ==
    MkMetadata(other.files @@ md.files, other.dirs @@ md.dirs, other.symlinks @@ md.symlinks,
               other.hardlinks @@ md.hardlinks, md.dashes \cup other.dashes)

\* impl From<MetadataGroup> for Metadata, taking the components in the
\* order comps, which is the iteration order of the HashMap.
RECURSIVE flatten_group(_, _, _)
flatten_group(mdg, comps, md) ==
    IF comps = <<>> THEN md
    ELSE flatten_group(mdg, Tail(comps), extend(md, mdg[Head(comps)]))

\* parse::reader() and into_metadata() over the lines of an index.
ParseIndex(comps) ==
    /\ stash.pc = "parse"
    /\ LET mdg == group_lines(stash.lines, [c \in {} |-> EmptyMetadata])
       IN  /\ {comps[i] : i \in DOMAIN comps} = DOMAIN mdg
           /\ Len(comps) = Cardinality(DOMAIN mdg)
           /\ stash' = [pc |-> "flat", lines |-> stash.lines, mdg |-> mdg,
                        md |-> flatten_group(mdg, comps, EmptyMetadata)]
    /\ MetaFrame

InitParse ==
    /\ MetaIdle
    /\ \E n \in 1..MaxLines : \E lines \in [1..n -> IndexLines] :
          stash = [pc |-> "parse", lines |-> lines]

NextParse == \E comps \in UNION {[1..n -> IndexComponents] : n \in 1..2} : ParseIndex(comps)

SpecParse == InitParse /\ [][NextParse]_vars

(***************************************************************************)
(* The MergeChanges step of upgrade (cmd/upgrade.rs 371-423): from old,    *)
(* new and cur as the earlier filters left them and cv_old, the index of   *)
(* the release before old, the paths staged for a three-way merge.         *)
(***************************************************************************)
MergePaths == {"/etc/hosts", "/etc/passwd"}

\* A deny list that denies nothing.
merge_everything == {}

\* core/merge.rs dont_merge()
dont_merge ==
    {"/etc/passwd", "/etc/spwd.db", "/etc/pwd.db", "/etc/login.conf.db", "/var/db/services.db"}

\* What a set holds for a path: nothing, a file with one of four contents,
\* or a directory.
MergeMeta(ch) ==
    MkMetadata([p \in {q \in MergePaths : ch[q] \notin {"none", "dir"}} |-> "sha256:" \o ch[p]],
               [p \in {q \in MergePaths : ch[q] = "dir"} |-> ""],
               EmptyMap, EmptyMap, {})

MergeMetas(kinds) == {MergeMeta(ch) : ch \in [MergePaths -> kinds]}

\* cmd/upgrade.rs 371-416: the files of cur under the MergeChanges regexes
\* that are to be merged, each with old's entry.
to_merge(old, new, cur, cv_old, mc) ==
    IF Len(mc) = 0 THEN EmptyMap
    ELSE LET tm_vold == filter_paths_regexps(cv_old, mc)
             tm_old == filter_paths_regexps(old, mc)
             tm_cur == filter_paths_regexps(cur, mc)
             tm_new == filter_paths_regexps(new, mc)
         IN  [p \in {q \in DOMAIN tm_cur.files :
                        /\ q \notin dont_merge
                        /\ q \in DOMAIN tm_old.files
                        /\ q \in DOMAIN tm_new.files
                        /\ tm_cur.files[q] # tm_old.files[q]
                        /\ tm_cur.files[q] # tm_new.files[q]
                        /\ ~(q \in DOMAIN tm_vold.files /\ tm_vold.files[q] = tm_cur.files[q])}
                 |-> tm_old.files[p]]

StageMerges ==
    /\ stash.pc = "plan"
    /\ stash' = [stash EXCEPT !.pc = "staged",
                     !.to_merge = to_merge(stash.old, stash.new, stash.cur, stash.cv_old, stash.mc)]
    /\ MetaFrame

InitMerge ==
    /\ MetaIdle
    /\ \E cv_old \in MergeMetas({"none", "a", "c"}), old \in MergeMetas({"none", "a", "dir"}),
          new \in MergeMetas({"none", "a", "b"}), cur \in MergeMetas({"none", "a", "b", "c", "d", "dir"}),
          mc \in {<<>>, <<"^/etc/hosts$">>, <<"^/etc/">>} :
            stash = [pc |-> "plan", old |-> old, new |-> new, cur |-> cur, cv_old |-> cv_old,
                     mc |-> mc, to_merge |-> EmptyMap]

NextMerge == StageMerges

SpecMerge == InitMerge /\ [][NextMerge]_vars

\* The phase ph of the install that `last` records ran to its end: every
\* operation of the phase succeeded and the run went on or returned well.
PhaseCompleted(ph) ==
    /\ last.cmd = "install" /\ ~last.dry /\ last.pre.mtype = "upgrade"
    /\ \E i \in DOMAIN last.phases : last.phases[i] = ph
    /\ \A i \in DOMAIN last.ops : last.ops[i].ph = ph => last.ops[i].ok
    /\ \/ last.ret # "error"
       \/ \E i \in DOMAIN last.ops : last.ops[i].ph # ph /\ ~last.ops[i].ok

\* C22: when the kernel phase (the world phase) of a non-dry install has
\* completed, the manifest persisted at the command's exit says so (or is
\* cleared, the install being done), also when a later phase failed.
C22_PhaseProgressPersisted ==
    /\ PhaseCompleted("kernel") => state.manifest.mtype = "none" \/ state.manifest.kernel
    /\ PhaseCompleted("world") => state.manifest.mtype = "none" \/ state.manifest.world


\* Two trees are the same when every path holds the same kind of object with
\* the same content and target, and the same paths share an inode; the
\* inode numbers themselves are the file system's choice.
SameTree(a, b) ==
    /\ \A p \in FsPaths : [a[p] EXCEPT !.ino = 0] = [b[p] EXCEPT !.ino = 0]
    /\ \A p, q \in FsPaths : (a[p].ino = a[q].ino) <=> (b[p].ino = b[q].ino)

\* C21: the re-run of an install that failed at an I/O error ends without
\* error, and leaves the target tree as the install would have left it had
\* it never failed.
C21_RerunSameAsUnfailed ==
    stash.pc = "rerun" => last.ret # "error" /\ SameTree(tree, stash.want)

\* A failed install was re-run to its end and the tree is the expected one.
C21_Witness ==
    stash.pc = "rerun" /\ last.ret = "Done" /\ SameTree(tree, stash.want)

\* The part of tree t at and below the backup directory kd.
Below(t, kd) == [p \in {q \in FsPaths : starts_with(q, kd)} |-> t[p]]

\* The install recorded in l made its kernel backup.
BackedUp(l) ==
    l.cmd = "install" /\ \E i \in DOMAIN l.ops : l.ops[i].op = "backup" /\ l.ops[i].ok

\* The files of the kernel directory of t are linked under kd in u, next to
\* the sentinel file.
BackupIn(t, u, kd) ==
    /\ u[kd].k = "dir" /\ u[fufile(kd)].k = "file"
    /\ \A f \in FsPaths : Parent(f) = KernelSrcDir /\ t[f].k = "file"
            => u[Join(kd, Comp[f][Len(Comp[f])])] = t[f]

\* C29: an install that backs the kernel up writes the backup to the first
\* of kernel.old, kernel.old1, ... that was free or a directory with the
\* sentinel file, and no install changes or removes a candidate that
\* existed without the sentinel file.
C29_BackupSlot ==
    [][/\ \A i \in DOMAIN BackupSlots :
              exists(tree, BackupSlots[i]) /\ tree[fufile(BackupSlots[i])].k # "file"
                  => Below(tree', BackupSlots[i]) = Below(tree, BackupSlots[i])
       /\ BackedUp(last') =>
              \E i \in DOMAIN BackupSlots :
                  /\ slot_usable(tree, BackupSlots[i])
                  /\ \A j \in 1..(i - 1) : ~slot_usable(tree, BackupSlots[j])
                  /\ BackupIn(tree, tree', BackupSlots[i])
                  /\ \A j \in DOMAIN BackupSlots \ {i} :
                         Below(tree', BackupSlots[j]) = Below(tree, BackupSlots[j])]_vars

\* The backup went to kernel.old1, next to a kernel.old of somebody else's.
C29_Witness ==
    /\ BackedUp(last)
    /\ tree[BackupSlots[1]].k = "dir" /\ tree[fufile(BackupSlots[1])].k = "none"
    /\ tree[Join(BackupSlots[1], <<"k", "e", "r", "n", "e", "l">>)].c = "kernel.0"
    /\ tree[fufile(BackupSlots[2])].k = "file"
    /\ tree[Join(BackupSlots[2], <<"k", "e", "r", "n", "e", "l">>)].c = "kernel.1"

\* The user accepted a resolution of f in the resolve-merges run that `last`
\* records: the loop came to f, and the working file held no marker.
AcceptedIn(f) ==
    /\ last.cmd = "resolve-merges" /\ last.pre.mtype = "upgrade"
    /\ f \in DOMAIN last.pre.merge_conflict
    /\ last.pick[f] \in Edits(f) /\ ~cfmarker(last.pick[f])
    /\ \A g \in DOMAIN last.pre.merge_conflict : PathLess(g, f) => last.pick[g] # "io"

\* C30: once resolve-merges has ended, every resolution that was accepted
\* in it is in the persisted manifest, as a clean merge with the accepted
\* content, however the run ended.
C30_AcceptedPersisted ==
    \A f \in {"/etc/hosts", "/etc/rc.conf"} :
        AcceptedIn(f) => /\ f \in DOMAIN state.manifest.merge_clean
                       /\ state.manifest.merge_clean[f].res = Sha256(last.pick[f])
                       /\ f \notin DOMAIN state.manifest.merge_conflict

\* Every scanned path of tree t is a file with the bytes of the release that
\* fetch looks at: the scan's cur equals new entirely.
UpToDate(t) == \A p \in ScanPaths : t[p].k = "file" /\ t[p].c = NewBytes(p)

\* C23: a fetch that scans a tree equal to the new release reports "No
\* updates needed" and leaves the persisted manifest as it was.
C23_NoUpdatesNoManifest ==
    last.cmd = "fetch" /\ last.ret # "upgrade in progress" /\ UpToDate(tree)
        => last.ret = "No updates needed" /\ state.manifest = last.pre

\* Such a fetch was run.
C23_Witness ==
    last.cmd = "fetch" /\ UpToDate(tree) /\ last.ret = "No updates needed"

\* The hardlinks of m whose target is a file of m.
LinksToKept(m) == {k \in DOMAIN m.hardlinks : m.hardlinks[k] \in DOMAIN m.files}

\* C25, as stated: after a.remove_matching(b) no path of a is a path of b,
\* except for the hardlinks of a whose target file remains in a.
C25_DisjointPaths ==
    stash.pc = "matched" /\ stash.spechl
        => allpaths_hashset(stash.r) \cap allpaths_hashset(stash.b) \subseteq LinksToKept(stash.r)

\* The entries of map mine that map others holds unchanged.
Same(mine, others) == {k \in DOMAIN mine : k \in DOMAIN others /\ others[k] = mine[k]}

\* C25, amended: after a.remove_matching(b), a has lost exactly the entries
\* that b holds unchanged under the same variant (and the dash lines of b),
\* except that a hardlink whose target file remains in a is kept; a path
\* that b holds differently stays in a.
C25_NoEqualEntry ==
    stash.pc = "matched" /\ stash.spechl
        => /\ stash.r.files = Restrict(stash.a.files, DOMAIN stash.a.files \ Same(stash.a.files, stash.b.files))
           /\ stash.r.dirs = Restrict(stash.a.dirs, DOMAIN stash.a.dirs \ Same(stash.a.dirs, stash.b.dirs))
           /\ stash.r.symlinks = Restrict(stash.a.symlinks,
                                     DOMAIN stash.a.symlinks \ Same(stash.a.symlinks, stash.b.symlinks))
           /\ stash.r.hardlinks = Restrict(stash.a.hardlinks,
                                      (DOMAIN stash.a.hardlinks \ Same(stash.a.hardlinks, stash.b.hardlinks))
                                          \cup LinksToKept(stash.r))
           /\ LinksToKept(stash.r) = {k \in DOMAIN stash.a.hardlinks : stash.a.hardlinks[k] \in DOMAIN stash.r.files}
           /\ stash.r.dashes = stash.a.dashes \ stash.b.dashes

\* A changed file stayed in a next to b's entry for the same path, a
\* hardlink to it was kept although b holds it too.
C25_Witness ==
    /\ stash.pc = "matched" /\ stash.spechl
    /\ "/bin/sh" \in DOMAIN stash.r.files /\ "/bin/sh" \in DOMAIN stash.b.files
    /\ "/bin/rsh" \in DOMAIN stash.r.hardlinks /\ "/bin/rsh" \in DOMAIN stash.b.hardlinks

\* Path p is under UpdateIfUnmodified and locally modified in the filter's
\* input: a file of cur whose hash is neither old's nor new's nor that of
\* the release before, and which is not set aside for merging.
LocallyModified(in, p) ==
    /\ \E i \in DOMAIN in.uium : is_match(in.uium[i], p)
    /\ p \in DOMAIN in.cur.files
    /\ ~(in.ignore.some /\ p \in in.ignore.v)
    /\ ~(p \in DOMAIN in.old.files /\ in.old.files[p] = in.cur.files[p])
    /\ ~(p \in DOMAIN in.new.files /\ in.new.files[p] = in.cur.files[p])
    /\ ~(in.cv_old.some /\ p \in DOMAIN in.cv_old.v.files
            /\ in.cv_old.v.files[p] = in.cur.files[p])

\* C24: a path under UpdateIfUnmodified that is locally modified is, after
\* the filter, an entry of none of old, new and cur (a dash line, which says
\* that the path is not there, may stay), and of neither side of the
\* manifest, so that install has nothing to write or delete at it.
C24_ModifiedLeftAlone ==
    stash.pc = "filtered" =>
        \A p \in MetaPaths :
            LocallyModified(stash.in, p) =>
                /\ p \notin allpaths_hashset_nodash(stash.old)
                /\ p \notin allpaths_hashset_nodash(stash.new)
                /\ p \notin allpaths_hashset_nodash(stash.cur)
                /\ p \notin allpaths_hashset_nodash(stash.mnew)
                /\ p \notin allpaths_hashset_nodash(stash.mcur)

\* The scanned paths that lstat shows as links of the same inode as p, with
\* a link count above one.
Linked(fs, extra, p) ==
    {q \in ScannedPaths : /\ fs[q] # "none"
                          /\ lstat(fs, extra, q).ino = lstat(fs, extra, p).ino
                          /\ lstat(fs, extra, p).nlink > 1}

\* The first of them in the order of paths.
Canonical(fs, extra, p) ==
    CHOOSE q \in Linked(fs, extra, p) : \A r \in Linked(fs, extra, p) : ~PathLess(r, q)

\* C26: whatever the order in which the results arrived, the scan returns
\* for every path that exists and shares its inode with an earlier scanned
\* path, the link count being above one, a Hardlink to the first such path,
\* and for every other path that exists the entry of its own type.
C26_HardlinksByPathOrder ==
    stash.pc = "scanned" =>
        \A p \in ScannedPaths :
            IF stash.fs[p] = "none" THEN p \in stash.md.dashes
            ELSE IF Linked(stash.fs, stash.extra, p) # {} /\ Canonical(stash.fs, stash.extra, p) # p
            THEN /\ p \in DOMAIN stash.md.hardlinks
                 /\ stash.md.hardlinks[p] = Canonical(stash.fs, stash.extra, p)
                 /\ p \notin DOMAIN stash.md.files
            ELSE /\ p \notin DOMAIN stash.md.hardlinks
                 /\ stash.fs[p] \in {"file1", "file2"} =>
                        p \in DOMAIN stash.md.files
                            /\ stash.md.files[p] = scan_worker(stash.fs, stash.extra, p).v
                 /\ stash.fs[p] = "sym" => p \in DOMAIN stash.md.symlinks
                 /\ stash.fs[p] = "dir" => p \in DOMAIN stash.md.dirs

\* Three links of one file were scanned, and the result of the first path
\* arrived last.
C26_Witness ==
    /\ stash.pc = "scanned" /\ Len(stash.oks) = 3
    /\ stash.oks[3].path = "/bin/rsh" /\ stash.oks[1].path = "/etc/hosts"
    /\ \A p \in ScannedPaths : stash.fs[p] = "file1"
    /\ stash.md.hardlinks = ("/bin/sh" :> "/bin/rsh") @@ ("/etc/hosts" :> "/bin/rsh")

\* C27: a server is tried only after every server of the answer with a
\* smaller priority number was tried and did not answer; and the list of
\* servers to try holds the records of the answer, each once, in groups of
\* rising priority.
C27_PriorityRespected ==
    /\ \A i \in DOMAIN stash.tried : \A k \in DOMAIN stash.answer :
           stash.answer[k].pri < stash.tried[i].srv.pri
               => \E j \in 1..(i - 1) : stash.tried[j].srv = stash.answer[k] /\ ~stash.tried[j].ok
    /\ stash.pc = "try" /\ stash.tried = <<>> =>
           /\ Len(stash.list) = Len(stash.answer)
           /\ {stash.list[i] : i \in DOMAIN stash.list} = {stash.answer[i] : i \in DOMAIN stash.answer}
           /\ \A i, j \in DOMAIN stash.list : i < j => stash.list[i].pri <= stash.list[j].pri

\* Two servers of the first priority were shuffled against the sorted
\* order and did not answer, and the server of the next priority did.
C27_Witness ==
    /\ stash.pc = "found" /\ Len(stash.tried) = 3
    /\ stash.tried[1].srv.pri = 0 /\ stash.tried[2].srv.pri = 0 /\ stash.tried[3].srv.pri = 1
    /\ SrvLess(stash.tried[2].srv, stash.tried[1].srv)
    /\ stash.answer[1].pri = 1

\* No path of Metadata m is held under two variants.
OneVariant(m) ==
    \A p \in allpaths_hashset(m) :
        Cardinality({v \in {"files", "dirs", "symlinks", "hardlinks", "dashes"} :
                        IF v = "dashes" THEN p \in m.dashes ELSE p \in DOMAIN m[v]}) = 1

\* C28: every Metadata set built by the parser and the flattening of the
\* components, by the scanner, or by the filter steps holds a path under at
\* most one variant.
C28_OneVariantPerPath ==
    /\ stash.pc \in {"flat", "scanned"} => OneVariant(stash.md)
    /\ stash.pc = "filtered" =>
           /\ OneVariant(stash.old) /\ OneVariant(stash.new) /\ OneVariant(stash.cur)
           /\ OneVariant(stash.mnew) /\ OneVariant(stash.mcur)

\* C31: every <hex>.gz that a stash worker has moved into the files
\* directory holds, gzipped, bytes whose SHA-256 is <hex>, whatever was
\* written to the live file while the stash ran.
C31_StashedVerified ==
    stash.pc \in {"stash", "download", "save", "failed"} =>
        \A p \in DOMAIN stash.w :
            stash.w[p].pc = "ok" =>
                /\ stash.cur[p] \in DOMAIN filesdir
                /\ Sha256(decompress(filesdir[stash.cur[p]])) = stash.cur[p]


\* C32: every <hex>.gz that the hashcheck pool of hashfetch::get has moved
\* from the temporary directory into the files directory is a whole gzip
\* file whose decompressed content has SHA-256 <hex>.
C32_PlacedIsChecked ==
    stash.pc = "hashcheck" =>
        \A i \in DOMAIN stash.w :
            stash.w[i] = "ok" =>
                LET h == trim_gz(stash.reqs[i])
                IN  /\ h \in DOMAIN filesdir /\ is_gz(filesdir[h])
                    /\ Sha256(decompress(filesdir[h])) = h


\* C33: under UpdateIfUnmodified every hardlink of cur that matches the
\* regex list (and is not a path set aside for merging) is gone from old,
\* new and cur after the filter exactly when its target file was taken out
\* as locally modified.
C33_HardlinksFollowTarget ==
    stash.pc = "filtered" =>
        \A p \in DOMAIN filter_paths_regexps(stash.in.cur, stash.in.uium).hardlinks :
            ~(stash.in.ignore.some /\ p \in stash.in.ignore.v) =>
                LET t == stash.in.cur.hardlinks[p]
                IN  (t \notin DOMAIN stash.cur.files)
                        <=> (p \notin DOMAIN stash.old.hardlinks \cup DOMAIN stash.new.hardlinks
                                          \cup DOMAIN stash.cur.hardlinks)


\* The hardlinks that new and cur hold alike before the idempotent filter,
\* and whether the file a link points to is held alike by both.
SameLinks == Same(stash.new.hardlinks, stash.cur.hardlinks)

TargetSame(t) ==
    /\ (t \in DOMAIN stash.new.files) <=> (t \in DOMAIN stash.cur.files)
    /\ t \in DOMAIN stash.new.files => stash.new.files[t] = stash.cur.files[t]

\* C34: after new.remove_matching(cur) and cur.remove_matching(new) every
\* file, directory, symlink and dash line that new and cur held alike is in
\* neither of them, and a hardlink they held alike is in neither when its
\* target file is alike in both, and in both when its target file is not.
C34_IdempotentFilter ==
    stash.pc = "filtered" =>
        /\ \A k \in Same(stash.new.files, stash.cur.files) :
               k \notin DOMAIN stash.mnew.files \cup DOMAIN stash.mcur.files
        /\ \A k \in Same(stash.new.dirs, stash.cur.dirs) :
               k \notin DOMAIN stash.mnew.dirs \cup DOMAIN stash.mcur.dirs
        /\ \A k \in Same(stash.new.symlinks, stash.cur.symlinks) :
               k \notin DOMAIN stash.mnew.symlinks \cup DOMAIN stash.mcur.symlinks
        /\ \A k \in stash.new.dashes \cap stash.cur.dashes :
               k \notin stash.mnew.dashes \cup stash.mcur.dashes
        /\ \A k \in SameLinks :
               IF TargetSame(stash.new.hardlinks[k])
               THEN k \notin DOMAIN stash.mnew.hardlinks \cup DOMAIN stash.mcur.hardlinks
               ELSE k \in DOMAIN stash.mnew.hardlinks \cap DOMAIN stash.mcur.hardlinks

\* A hardlink alike in new and cur is kept in both because the file it
\* points to differs and stays in new.
C34_Witness ==
    /\ stash.pc = "filtered"
    /\ \E k \in SameLinks :
          /\ ~TargetSame(stash.new.hardlinks[k])
          /\ k \in DOMAIN stash.mnew.hardlinks \cap DOMAIN stash.mcur.hardlinks
          /\ stash.new.hardlinks[k] \in DOMAIN stash.mnew.files


\* The generated password and service databases that are never merged.
GeneratedDbs ==
    {"/etc/passwd", "/etc/spwd.db", "/etc/pwd.db", "/etc/login.conf.db", "/var/db/services.db"}

\* p is a file of old, new and cur, and cur's content is none of old's,
\* new's and the content of the release before old.
ThreeWayModified(p) ==
    /\ p \in DOMAIN stash.old.files \cap DOMAIN stash.new.files \cap DOMAIN stash.cur.files
    /\ stash.cur.files[p] # stash.old.files[p]
    /\ stash.cur.files[p] # stash.new.files[p]
    /\ ~(p \in DOMAIN stash.cv_old.files /\ stash.cv_old.files[p] = stash.cur.files[p])

\* C35: upgrade stages a path for a three-way merge exactly when the path
\* matches a MergeChanges regex, is not one of the generated databases, is
\* a file in old, new and cur, and cur's hash is none of old's, new's and
\* very-old's.
C35_MergeStaged ==
    stash.pc = "staged" =>
        \A p \in MergePaths :
            p \in DOMAIN stash.to_merge
                <=> /\ \E i \in DOMAIN stash.mc : is_match(stash.mc[i], p)
                    /\ p \notin GeneratedDbs
                    /\ ThreeWayModified(p)

\* /etc/hosts is staged while /etc/passwd, modified the same way and under
\* the regex list too, is not.
C35_Witness ==
    /\ stash.pc = "staged"
    /\ DOMAIN stash.to_merge = {"/etc/hosts"}
    /\ stash.mc = <<"^/etc/">>
    /\ ThreeWayModified("/etc/passwd")


\* C36: when fetch finds new empty after its filter steps and reports "No
\* updates needed", cur holds no path of the system either: nothing is left
\* to add, to update or to remove.
C36_NoUpdatesNothingLeft ==
    (stash.pc = "filtered" /\ ~stash.in.ignore.some /\ ~stash.in.cv_old.some) =>
        (empty(stash.mnew) => allpaths_hashset_nodash(stash.mcur) = {})


\* C37: a fetch or upgrade run that finds a saved VersionUpgrade manifest
\* with its kernel phase done refuses to run, and leaves the saved state
\* and the files directory as they were.
C37_RefusedInProgress ==
    [][(/\ state.manifest.mtype = "upgrade" /\ state.manifest.kernel
        /\ last'.cmd \in {"fetch", "upgrade"})
          => /\ state' = state /\ filesdir' = filesdir
             /\ last'.ret \in {"upgrade in progress", "Cannot upgrade to itself"}]_vars

\* An upgrade run was refused over an upgrade whose kernel is installed and
\* whose world is not.
C37_Witness ==
    /\ last.cmd = "upgrade" /\ last.ret = "upgrade in progress"
    /\ state.manifest.mtype = "upgrade" /\ state.manifest.kernel /\ ~state.manifest.world


\* C38: in every saved VersionUpgrade manifest world_done implies
\* kernel_done, and no command run turns kernel_done or world_done of the
\* saved upgrade manifest from true to false.
C38_FlagsMonotone ==
    [][/\ state.manifest.mtype = "upgrade" => (state.manifest.world => state.manifest.kernel)
       /\ state'.manifest.mtype = "upgrade" => (state'.manifest.world => state'.manifest.kernel)
       /\ (state.manifest.mtype = "upgrade" /\ state'.manifest.mtype = "upgrade") =>
              /\ state.manifest.kernel => state'.manifest.kernel
              /\ state.manifest.world => state'.manifest.world]_vars

\* An install run has saved the manifest with both phases done, the held
\* back shared libraries still to be deleted.
C38_Witness ==
    /\ last.cmd = "install" /\ last.ret = "Save"
    /\ last.pre.mtype = "upgrade" /\ last.pre.kernel /\ ~last.pre.world
    /\ state.manifest.mtype = "upgrade" /\ state.manifest.kernel /\ state.manifest.world


\* C39: when a fetch run has reported "No updates needed", the saved state
\* holds no pending manifest.
C39_NoUpdatesNoPending ==
    (last.cmd = "fetch" /\ last.ret = "No updates needed") => state.manifest.mtype = "none"


\* list holds every server of the answer exactly once.
IsPermutation(list, answer) ==
    /\ Len(list) = Len(answer)
    /\ \A i \in DOMAIN answer : Cardinality({j \in DOMAIN list : list[j] = answer[i]}) = 1

\* C40: for every answer and every assignment of weights the weighted
\* shuffle of every priority comes to its end, and the list handed on holds
\* every server exactly once.
C40_ShuffleTerminates ==
    <>(stash.pc = "try" /\ stash.tried = <<>> /\ IsPermutation(stash.list, stash.answer))

====
